---- MODULE Spec2Model ----
(***************************************************************************)
(* Selfie2Snap: the batch archive builder (BatchDownload.handleBatchDownload *)
(* and FavoritesPanel.handleDownloadAll) and the pixel enhancement pipeline *)
(* (ImageEnhancer.applyEnhancements), as state machines.                    *)
(*                                                                          *)
(* JavaScript runs a handler to its next await without interleaving, so an  *)
(* action is one such run: the click up to the first pending fetch, the     *)
(* resumption after a fetch settles up to the next await, and so on.        *)
(***************************************************************************)
EXTENDS Integers, Sequences, FiniteSets, TLC

\* Longest source list a job is started on.
MaxImages == 3

\* Most control interactions (slider, preset, reset) in one editing session.
MaxEdits == 1

\* Largest width and height of the images the two pixel passes are run on.
MaxSide == 4

\* Most interactions in one session of the watermark editor.
MaxWmOps == 4

\* Most rows of generated_images, and most delete clicks on the History page.
MaxRows == 3

\* HTTP statuses a settled fetch can carry: OK and Not Found.
StatusOK == 200
Statuses == {StatusOK, 404}

VARIABLES
    site,           \* which component this instance is
    images,         \* props.images / favorites: the ordered source list
    isDownloading,  \* useState flag (isDownloading / isDownloadingAll)
    progress,       \* useState progress (BatchDownload only)
    btnDisabled,    \* the disabled attribute as committed by the last render
    jobs            \* running handler invocations, and the last finished one

archiveVars == <<site, images, isDownloading, progress, btnDisabled, jobs>>

VARIABLES
    originalImage,  \* originalImageRef.current: the decoded image, or NoImage
    loading,        \* the Image element whose onload is pending, or NoLoad
    settings,       \* useState settings (EnhancementSettings)
    selectedPreset, \* useState selectedPreset: a preset id, or "null"
    canvas,         \* the pixels on canvasRef.current, or Blank
    applied,        \* the settings the last applyEnhancements run has used
    edits,          \* how many control interactions have happened
    enhancerIsOpen, \* the isOpen prop of ImageEnhancer
    lastEdit,       \* the last control interaction, and whether a preset was
                    \* marked as selected when it happened
    enhIsProcessing, \* useState isProcessing of ImageEnhancer
    isAutoEnhancing, \* useState isAutoEnhancing: the 1.5 s timer is pending
    enhDownloads    \* the handleDownload runs of ImageEnhancer: the outcome
                    \* and the toasts each has raised

enhVars == <<originalImage, loading, settings, selectedPreset, canvas, applied, edits,
             enhancerIsOpen, lastEdit, enhIsProcessing, isAutoEnhancing, enhDownloads>>

VARIABLES
    passImage,      \* the buffer getImageData returns for the drawn image
    passSettings,   \* the settings the pixel loop runs with
    enhanced,       \* the buffer after the pixel loop, or Blank before it
    passSharpness,  \* 100 * amount of the applySharpening call
    sharpened       \* the buffer after applySharpening, or Blank before it

passVars == <<passImage, passSettings, enhanced, passSharpness, sharpened>>

VARIABLES
    watermarkIsOpen,  \* the isOpen prop of WatermarkEditor
    text,             \* useState text: its characters, "\n" between lines
    position,         \* useState position: one of the five anchors
    fontSize,         \* useState fontSize
    opacity,          \* useState opacity
    color,            \* useState color
    fontFamily,       \* useState fontFamily
    rotation,         \* useState rotation
    isProcessing,     \* useState isProcessing
    presets,          \* useState presets: the user-created presets
    wmSelectedPreset, \* useState selectedPreset of WatermarkEditor, or NoPreset
    showSaveDialog,   \* useState showSaveDialog
    newPresetName,    \* useState newPresetName
    localStorage,     \* the keys "watermark-presets" and "watermark-preferences"
    now,              \* the last value Date.now() has returned
    downloads,        \* the handleDownload runs: the text, the outcome and
                      \* the toasts each has raised
    wmToast,          \* the last toast shown
    wmOps,            \* how many interactions have happened
    wmLastOp,         \* the last interaction
    imageSize,        \* img.width and img.height of the loaded image
    fillTexts,        \* the fillText calls of the last drawing
    drawnBy,          \* which drawWatermark made them
    wmLoads,          \* the Image elements of drawWatermark whose onload is
                      \* pending, oldest first: the fields each has captured
    wmCanvas          \* the fields the canvas was last drawn with: << >> when
                      \* nothing was drawn, <<fields>> otherwise

wmVars == <<watermarkIsOpen, text, position, fontSize, opacity, color, fontFamily,
            rotation, isProcessing, presets, wmSelectedPreset, showSaveDialog,
            newPresetName, localStorage, now, downloads, wmToast, wmOps, wmLastOp,
            imageSize, fillTexts, drawnBy, wmLoads, wmCanvas>>

VARIABLES
    srvRequest,     \* the request the generate-snaps function is serving
    srvPc,          \* where its handler stands: the await it is suspended at
    srvUpstream,    \* the answer of the AI gateway, once fetch has settled
    srvCalls,       \* the fetch calls of the handler: the style of each prompt
    srvResponses    \* the responses the handler has returned

srvVars == <<srvRequest, srvPc, srvUpstream, srvCalls, srvResponses>>

VARIABLES
    histRows,       \* the rows of generated_images the server holds
    histImages,     \* useState images of the History page
    histLoading,    \* useState loading of the History page
    histFetches,    \* how many fetchHistory calls await their answer
    histDeletes     \* the handleDelete invocations: the id, the images of
                    \* the render the handler belongs to, and how it stands

histVars == <<histRows, histImages, histLoading, histFetches, histDeletes>>

vars == <<archiveVars, enhVars, passVars, wmVars, srvVars, histVars>>

-----------------------------------------------------------------------------
\* Pure helpers of the archive builder

\* imageUrl.startsWith("data:")
StartsWithData(url) == url.scheme = "data:"

\* imageUrl.split(",")[1]
Base64Data(url) == IF Len(url.parts) >= 2 THEN url.parts[2] ELSE "undefined"

\* the entry-name prefix of a call site
Prefix(s) == IF s = "BatchDownload" THEN "snap" ELSE "favorite"

\* an entry name built from the 0-based index itself
EntryNameZeroBased(s, i) == Prefix(s) \o "-" \o ToString(i) \o ".png"

\* `snap-${i + 1}.png` / `favorite-${i + 1}.png`, i the 0-based loop index
EntryName(s, i) == Prefix(s) \o "-" \o ToString(i + 1) \o ".png"

\* Math.round of the rational num/den (den > 0): nearest integer, ties up
MathRound(num, den) == (2 * num + den) \div (2 * den)

\* a progress value computed from the index of the source just processed
ProgressValueOffByOne(i, len) == MathRound(i * 100, len)

\* Math.round(((i + 1) / images.length) * 100)
ProgressValue(i, len) == MathRound((i + 1) * 100, len)

\* toast.success(`Downloaded ${images.length} images as ZIP!`)
SuccessToast(imgs) == [kind |-> "success", count |-> Len(imgs)]

\* toast.error("Failed to create ZIP file") / ("Failed to download favorites")
FailureToast == [kind |-> "error", count |-> 0]

NoToast == [kind |-> "none", count |-> 0]

\* a button that ignores the in-flight flag
ButtonDisabledNoFlag(s, downloading, imgs) ==
    IF s = "BatchDownload" THEN Len(imgs) = 0 ELSE FALSE

\* disabled={isDownloading || images.length === 0} / disabled={isDownloadingAll}
ButtonDisabled(s, downloading, imgs) ==
    IF s = "BatchDownload" THEN downloading \/ Len(imgs) = 0 ELSE downloading

\* the FavoritesPanel button is rendered only when favorites.length > 0
ButtonRendered(s, imgs) == s = "BatchDownload" \/ Len(imgs) > 0

-----------------------------------------------------------------------------
\* One invocation of the handler

\* the state of an invocation right after `new JSZip()`
NewJob ==
    [pc |-> "loop", i |-> 0, zip |-> << >>, inflight |-> {}, status |-> 0,
     reported |-> << >>, threw |-> {}, logged |-> {}, genCalls |-> 0, genFailed |-> FALSE,
     offered |-> FALSE, toast |-> NoToast]

\* folder.file(name, data): sets the entry, replacing one of the same name
FolderFile(job, name, data) ==
    [job EXCEPT !.zip = [n \in (DOMAIN job.zip) \cup {name} |->
                            IF n = name THEN data ELSE job.zip[n]]]

\* the end of one loop iteration: setProgress(...) (BatchDownload) and i++
EndIteration(s, job, imgs) ==
    [job EXCEPT !.reported = IF s = "BatchDownload"
                             THEN Append(@, ProgressValue(job.i, Len(imgs)))
                             ELSE @,
                !.i = @ + 1,
                !.status = 0]

\* console.error(`Failed to add image ${i + 1}:`, err) /
\* console.error("Failed to fetch image:", fav.image_url)
ConsoleError(s, job, err) ==
    [src |-> job.i, err |-> IF s = "BatchDownload" THEN err ELSE ""]

\* a per-source catch block that leaves the loop at the first failure
CatchSourceBreak(s, job, err, imgs) ==
    [job EXCEPT !.logged = @ \cup {ConsoleError(s, job, err)},
                !.inflight = {}, !.status = 0, !.i = Len(imgs)]

\* a per-source catch block that ends the loop at FavoritesPanel and goes on
\* at BatchDownload
CatchSourceFavoritesStops(s, job, err, imgs) ==
    IF s = "FavoritesPanel"
    THEN [job EXCEPT !.logged = @ \cup {ConsoleError(s, job, err)},
                     !.inflight = {}, !.status = 0, !.i = Len(imgs)]
    ELSE EndIteration(s,
             [job EXCEPT !.logged = @ \cup {ConsoleError(s, job, err)}, !.inflight = {}],
             imgs)

\* a per-source catch block that still stores an (empty) entry for the source
CatchSourcePlaceholder(s, job, err, imgs) ==
    EndIteration(s,
        [job EXCEPT !.logged = @ \cup {ConsoleError(s, job, err)},
                    !.inflight = {},
                    !.zip = [n \in (DOMAIN job.zip) \cup {Prefix(s) \o "-" \o ToString(job.i + 1) \o ".png"} |->
                                IF n \in DOMAIN job.zip THEN job.zip[n]
                                ELSE [kind |-> "blob", data |-> "", src |-> job.i, status |-> 0]]],
        imgs)

\* the per-source catch block: console.error, nothing inserted, and the
\* loop goes on with setProgress and the next index
CatchSource(s, job, err, imgs) ==
    EndIteration(s,
        [job EXCEPT !.logged = @ \cup {ConsoleError(s, job, err)}, !.inflight = {}],
        imgs)

\* a fetch started together with a prefetch of the next source
StartFetchPrefetch(job) ==
    [job EXCEPT !.pc = "fetch", !.inflight = @ \cup {job.i, job.i + 1}]

\* `await fetch(imageUrl)`: the request of source job.i is in flight
StartFetch(job) ==
    [job EXCEPT !.pc = "fetch", !.inflight = @ \cup {job.i}]

\* the for loop from index job.i up to its next await: inline sources are
\* inserted at once, a remote source starts its fetch, and after the last
\* source zip.generateAsync is called
RECURSIVE RunLoop(_, _, _)
RunLoop(s, job, imgs) ==
    IF job.i >= Len(imgs)
    THEN [job EXCEPT !.pc = "generate", !.genCalls = @ + 1]
    ELSE LET url == imgs[job.i + 1] IN
         IF StartsWithData(url)
         THEN RunLoop(s,
                      EndIteration(s,
                          FolderFile(job, EntryName(s, job.i),
                                     [kind |-> "base64", data |-> Base64Data(url),
                                      src |-> job.i, status |-> 0]),
                          imgs),
                      imgs)
         ELSE StartFetch(job)

\* the value the progress state holds after the setProgress calls of a run
ProgressAfter(s, job, old) ==
    IF s = "BatchDownload" /\ Len(job.reported) > 0
    THEN job.reported[Len(job.reported)]
    ELSE old

Active(job) == job.pc # "done"

ReplaceJob(j, job) == [jobs EXCEPT ![j] = job]


-----------------------------------------------------------------------------
\* The archive builder's actions

\* The source lists a job is started on.  An image source is held as the
\* handlers look at it: the text before the first comma (what
\* startsWith("data:") inspects) and the pieces split(",") yields.
SourceLists ==
    LET InlineSource == [scheme |-> "data:",
                         parts |-> <<"data:image/png;base64", "AAAA">>]
        RemoteSource == [scheme |-> "https:", parts |-> <<"https://bad.example/x.png">>]
    IN  UNION {[1..n -> {InlineSource, RemoteSource}] : n \in 0..MaxImages}

\* onClick={handleBatchDownload} / onClick={handleDownloadAll}: the handler
\* from its first line to its first await.  React commits the state updates
\* of a click handler before the next event is dispatched.
Click ==
    /\ ButtonRendered(site, images)
    /\ ~btnDisabled
    /\ IF Len(images) = 0
       THEN /\ jobs' = Append(SelectSeq(jobs, Active),
                              [NewJob EXCEPT !.pc = "done",
                                             !.toast = IF site = "BatchDownload"
                                                       THEN [kind |-> "error-empty", count |-> 0]
                                                       ELSE NoToast])
            /\ UNCHANGED <<isDownloading, progress, btnDisabled>>
       ELSE LET job == RunLoop(site, NewJob, images) IN
            /\ jobs' = Append(SelectSeq(jobs, Active), job)
            /\ isDownloading' = TRUE
            /\ progress' = ProgressAfter(site, job, 0)
            /\ btnDisabled' = ButtonDisabled(site, TRUE, images)
    /\ UNCHANGED <<site, images>>
    /\ UNCHANGED <<enhVars, passVars, wmVars, srvVars, histVars>>

\* `await fetch(imageUrl)` resolves with a response of status st; the handler
\* goes on to `await response.blob()` whatever the status is
FetchResolve(j, st) ==
    /\ jobs[j].pc = "fetch"
    /\ jobs' = ReplaceJob(j, [jobs[j] EXCEPT !.pc = "blob", !.status = st])
    /\ UNCHANGED <<site, images, isDownloading, progress, btnDisabled>>
    /\ UNCHANGED <<enhVars, passVars, wmVars, srvVars, histVars>>

\* `await fetch(imageUrl)` rejects (network error): the per-source catch
FetchReject(j) ==
    /\ jobs[j].pc = "fetch"
    /\ LET cur == [jobs[j] EXCEPT !.threw = @ \cup {jobs[j].i}]
           job == RunLoop(site, CatchSource(site, cur, "fetch", images), images) IN
        /\ jobs' = ReplaceJob(j, job)
        /\ progress' = ProgressAfter(site, job, progress)
    /\ UNCHANGED <<site, images, isDownloading, btnDisabled>>
    /\ UNCHANGED <<enhVars, passVars, wmVars, srvVars, histVars>>

\* `await response.blob()` resolves: folder.file(name, blob)
BlobResolve(j) ==
    /\ jobs[j].pc = "blob"
    /\ LET cur == jobs[j]
           ins == FolderFile([cur EXCEPT !.inflight = {}],
                             EntryName(site, cur.i),
                             [kind |-> "blob", data |-> "body",
                              src |-> cur.i, status |-> cur.status])
           job == RunLoop(site, EndIteration(site, ins, images), images) IN
        /\ jobs' = ReplaceJob(j, job)
        /\ progress' = ProgressAfter(site, job, progress)
    /\ UNCHANGED <<site, images, isDownloading, btnDisabled>>
    /\ UNCHANGED <<enhVars, passVars, wmVars, srvVars, histVars>>

\* `await response.blob()` rejects (the body read fails): the per-source catch
BlobReject(j) ==
    /\ jobs[j].pc = "blob"
    /\ LET cur == [jobs[j] EXCEPT !.threw = @ \cup {jobs[j].i}]
           job == RunLoop(site, CatchSource(site, cur, "blob", images), images) IN
        /\ jobs' = ReplaceJob(j, job)
        /\ progress' = ProgressAfter(site, job, progress)
    /\ UNCHANGED <<site, images, isDownloading, btnDisabled>>
    /\ UNCHANGED <<enhVars, passVars, wmVars, srvVars, histVars>>

\* the tail of the handler once zip.generateAsync has resolved: the object
\* URL, link.click(), toast.success, then the finally block
OnGenerated(job, imgs) ==
    [job EXCEPT !.pc = "done", !.offered = TRUE, !.toast = SuccessToast(imgs)]

\* an outer catch block that still hands the archive to the browser
OnGenerateErrorOffers(job) ==
    [job EXCEPT !.pc = "done", !.genFailed = TRUE, !.offered = TRUE,
                !.toast = FailureToast]

\* the outer catch block, then the finally block
OnGenerateError(job) ==
    [job EXCEPT !.pc = "done", !.genFailed = TRUE, !.toast = FailureToast]

GenerateResolve(j) ==
    /\ jobs[j].pc = "generate"
    /\ jobs' = ReplaceJob(j, OnGenerated(jobs[j], images))
    /\ isDownloading' = FALSE
    /\ progress' = 0
    /\ UNCHANGED <<site, images, btnDisabled>>
    /\ UNCHANGED <<enhVars, passVars, wmVars, srvVars, histVars>>

\* a handler whose catch block ends the invocation without a finally block
GenerateRejectNoFinally(j) ==
    /\ jobs[j].pc = "generate"
    /\ jobs' = ReplaceJob(j, OnGenerateError(jobs[j]))
    /\ UNCHANGED <<site, images, isDownloading, progress, btnDisabled>>
    /\ UNCHANGED <<enhVars, passVars, wmVars, srvVars, histVars>>

\* zip.generateAsync rejects: the outer catch block, then the finally block
GenerateReject(j) ==
    /\ jobs[j].pc = "generate"
    /\ jobs' = ReplaceJob(j, OnGenerateError(jobs[j]))
    /\ isDownloading' = FALSE
    /\ progress' = 0
    /\ UNCHANGED <<site, images, btnDisabled>>
    /\ UNCHANGED <<enhVars, passVars, wmVars, srvVars, histVars>>

\* a re-render commits the button's disabled attribute from the current state
Render ==
    /\ btnDisabled # ButtonDisabled(site, isDownloading, images)
    /\ btnDisabled' = ButtonDisabled(site, isDownloading, images)
    /\ UNCHANGED <<site, images, isDownloading, progress, jobs>>
    /\ UNCHANGED <<enhVars, passVars, wmVars, srvVars, histVars>>

ArchiveNext ==
    \/ Click
    \/ \E j \in DOMAIN jobs, st \in Statuses : FetchResolve(j, st)
    \/ \E j \in DOMAIN jobs : FetchReject(j)
    \/ \E j \in DOMAIN jobs : BlobResolve(j)
    \/ \E j \in DOMAIN jobs : BlobReject(j)
    \/ \E j \in DOMAIN jobs : GenerateResolve(j)
    \/ \E j \in DOMAIN jobs : GenerateReject(j)
    \/ Render

-----------------------------------------------------------------------------
\* Exact arithmetic for the pixel pipeline
\*
\* applyEnhancements computes in IEEE-754 doubles.  The model computes the
\* same expressions exactly, as fractions with a fixed denominator per stage.
\* The numerators exceed the 32-bit integers of TLC, so they are
\* kept as little-endian sequences of limbs in base Base: the value of s is
\* the sum of s[i] * Base^(i-1).  In normal form every limb but the last is
\* in 0..Base-1 and the last limb carries the sign.

\* the base of a limb
Base == 10000

\* s[i], reading 0 beyond the end
Limb(s, i) == IF i <= Len(s) THEN s[i] ELSE 0

\* the normal form of the limbs k.. of s plus a carry into limb k
RECURSIVE BigCarry(_, _, _)
BigCarry(s, k, carry) ==
    IF k > Len(s)
    THEN IF carry = 0 THEN << >>
         ELSE IF carry >= -Base /\ carry < Base THEN <<carry>>
         ELSE <<carry % Base>> \o BigCarry(s, k, carry \div Base)
    ELSE LET t == s[k] + carry IN
         IF k = Len(s) /\ t >= -Base /\ t < Base
         THEN <<t>>
         ELSE <<t % Base>> \o BigCarry(s, k + 1, t \div Base)

BigNorm(s) == BigCarry(s, 1, 0)

BigFromInt(n) == BigNorm(<<n>>)

BigAdd(a, b) ==
    LET n == IF Len(a) >= Len(b) THEN Len(a) ELSE Len(b) IN
    BigNorm([i \in 1..n |-> Limb(a, i) + Limb(b, i)])

BigSub(a, b) ==
    LET n == IF Len(a) >= Len(b) THEN Len(a) ELSE Len(b) IN
    BigNorm([i \in 1..n |-> Limb(a, i) - Limb(b, i)])

\* a * m for an integer m with |m| <= 200000
BigScale(a, m) == BigNorm([i \in 1..Len(a) |-> a[i] * m])

\* a * Base^k
BigShift(a, k) == [i \in 1..(Len(a) + k) |-> IF i <= k THEN 0 ELSE a[i - k]]

\* the sum of a[i] * b[k - i + 1] over i in lo..hi
RECURSIVE ConvSum(_, _, _, _, _)
ConvSum(a, b, k, lo, hi) ==
    IF lo > hi THEN 0
    ELSE a[lo] * b[k - lo + 1] + ConvSum(a, b, k, lo + 1, hi)

BigMul(a, b) ==
    IF Len(a) = 0 \/ Len(b) = 0 THEN << >>
    ELSE BigNorm([k \in 1..(Len(a) + Len(b) - 1) |->
                    ConvSum(a, b, k,
                            IF k - Len(b) + 1 > 1 THEN k - Len(b) + 1 ELSE 1,
                            IF k < Len(a) THEN k ELSE Len(a))])

BigIsNeg(a) == Len(a) > 0 /\ a[Len(a)] < 0

\* a < b
BigLess(a, b) == BigIsNeg(BigSub(a, b))

\* Math.max of three numbers
BigMax3(a, b, c) ==
    LET ab == IF BigLess(a, b) THEN b ELSE a IN
    IF BigLess(ab, c) THEN c ELSE ab

\* the integer value of the limbs k.. of a non-negative a (which must fit)
RECURSIVE BigHigh(_, _)
BigHigh(a, k) == IF k > Len(a) THEN 0 ELSE a[k] + Base * BigHigh(a, k + 1)

\* whether some limb below k of a is not zero
BigLowNonZero(a, k) == \E i \in 1..(k - 1) : Limb(a, i) # 0

-----------------------------------------------------------------------------
\* ImageEnhancer: the per-pixel pass of applyEnhancements
\*
\* A channel value after a stage is a fraction numerator/denominator; the
\* denominator of each stage is fixed, so a stage maps numerators to
\* numerators.  x is a byte 0..255, st the EnhancementSettings record.

\* DEFAULT_SETTINGS
DEFAULT_SETTINGS ==
    [brightness |-> 0, contrast |-> 0, saturation |-> 0,
     sharpness |-> 0, warmth |-> 0, vibrance |-> 0]

\* AUTO_ENHANCE_PRESETS
AUTO_ENHANCE_PRESETS ==
    <<[id |-> "auto",
       settings |-> [brightness |-> 5, contrast |-> 10, saturation |-> 8,
                     sharpness |-> 15, warmth |-> 3, vibrance |-> 12]],
      [id |-> "vivid",
       settings |-> [brightness |-> 3, contrast |-> 15, saturation |-> 25,
                     sharpness |-> 10, warmth |-> -5, vibrance |-> 30]],
      [id |-> "cinematic",
       settings |-> [brightness |-> -3, contrast |-> 20, saturation |-> -10,
                     sharpness |-> 8, warmth |-> 8, vibrance |-> -5]],
      [id |-> "bright",
       settings |-> [brightness |-> 15, contrast |-> 5, saturation |-> 5,
                     sharpness |-> 5, warmth |-> 5, vibrance |-> 10]]>>

\* Brightness: r += settings.brightness * 2.55.
\* 2.55 = 51/20; the result is over the denominator 20.
BrightnessStage(x, st) == 20 * x + 51 * st.brightness

\* a contrast stage whose factor is settings.contrast / 100, without the
\* offset of 100
ContrastStageNoOffset(x1, st) == (x1 - 2550) * st.contrast + 255000

\* Contrast: contrast = (settings.contrast + 100) / 100;
\* r = ((r / 255 - 0.5) * contrast + 0.5) * 255.
\* With r = x1/20: r/255 - 0.5 = (x1 - 2550)/5100; times contrast it is
\* (x1 - 2550)(c + 100)/510000; plus 0.5 = 255000/510000; times 255 the
\* denominator becomes 2000.
ContrastStage(x1, st) == (x1 - 2550) * (st.contrast + 100) + 255000

\* gray = 0.2989 * r + 0.587 * g + 0.114 * b, on channels over 2000:
\* the result is over 2 * 10^7.
Gray(p2) ==
    BigAdd(BigScale(BigFromInt(p2.r), 2989),
           BigAdd(BigScale(BigFromInt(p2.g), 5870),
                  BigScale(BigFromInt(p2.b), 1140)))

\* Saturation: satFactor = (settings.saturation + 100) / 100;
\* r = gray + satFactor * (r - gray).  r - gray is over 2 * 10^7, the
\* result over 2 * 10^9.
SaturationStage(x2, gray, st) ==
    BigAdd(BigScale(gray, 100),
           BigScale(BigSub(BigScale(BigFromInt(x2), 10000), gray),
                    st.saturation + 100))

\* Warmth: r += warmth * 1.5; g += warmth * 0.5; b -= warmth * 1.5.
\* Over 2 * 10^9 these are 3w * 10^9, w * 10^9 and -3w * 10^9, and
\* 10^9 = 10 * Base^2.
WarmthStage(p3, st) ==
    [r |-> BigAdd(p3.r, BigShift(BigFromInt(30 * st.warmth), 2)),
     g |-> BigAdd(p3.g, BigShift(BigFromInt(10 * st.warmth), 2)),
     b |-> BigSub(p3.b, BigShift(BigFromInt(30 * st.warmth), 2))]

\* Vibrance: vibrance = settings.vibrance / 100;
\* maxChannel = Math.max(r, g, b); avgChannel = (r + g + b) / 3;
\* vibranceAmount = (maxChannel - avgChannel) / 255 * vibrance;
\* r += (r - avgChannel) * vibranceAmount.
\* With channels over d = 2 * 10^9 and sum = r + g + b:
\* r - avgChannel = (3r - sum)/(3d), vibranceAmount =
\* (3 max - sum) v / (3d * 25500), so the result is over
\* 9 d^2 * 25500 = 9180 * Base^5 and r itself becomes r * 459 * Base^3.
VibranceStage(p4, st) ==
    LET sum  == BigAdd(p4.r, BigAdd(p4.g, p4.b))
        max  == BigMax3(p4.r, p4.g, p4.b)
        amt  == BigScale(BigSub(BigScale(max, 3), sum), st.vibrance)
        f(x) == BigAdd(BigShift(BigScale(x, 459), 3),
                       BigMul(BigSub(BigScale(x, 3), sum), amt))
    IN  [r |-> f(p4.r), g |-> f(p4.g), b |-> f(p4.b)]

\* the denominator of a channel after the vibrance stage is
\* FinalDen * Base^FinalShift
FinalDen == 9180
FinalShift == 5

\* A value that lies exactly halfway between two integers q and q + 1 is
\* stored by a Uint8ClampedArray as the even one; but the doubles of the
\* program carry rounding errors that the exact fractions of the model do
\* not, and those decide on which side of the half the computed value falls.
\* The model therefore runs every pass under each of three rules for the
\* halfway case.
TieRules == {"down", "even", "up"}

RoundTie(q, rule) ==
    IF rule = "down" THEN q
    ELSE IF rule = "up" THEN q + 1
    ELSE IF q % 2 = 0 THEN q ELSE q + 1

\* data[i] = Math.max(0, Math.min(255, r)): the clamp, then the store into
\* the Uint8ClampedArray, which rounds to the nearest integer.  x5 is the
\* exact value over FinalDen * Base^FinalShift.
StoreChannel(x5, rule) ==
    IF BigIsNeg(x5) THEN 0
    ELSE IF ~BigLess(x5, BigShift(BigFromInt(255 * FinalDen), FinalShift)) THEN 255
    ELSE LET high   == BigHigh(x5, FinalShift + 1)
             q      == high \div FinalDen
             rem    == high % FinalDen
             sticky == BigLowNonZero(x5, FinalShift + 1)
         IN  IF 2 * rem > FinalDen \/ (2 * rem = FinalDen /\ sticky) THEN q + 1
             ELSE IF 2 * rem = FinalDen THEN RoundTie(q, rule)
             ELSE q

\* the five stages with the brightness and contrast outputs clamped to
\* [0, 255] before the next stage reads them
StagesClampedBetween(px, st) ==
    LET Clamp(x, den) == IF x < 0 THEN 0 ELSE IF x > 255 * den THEN 255 * den ELSE x
        p1 == [ch \in {"r", "g", "b"} |-> Clamp(BrightnessStage(px[ch], st), 20)]
        p2 == [ch \in {"r", "g", "b"} |-> Clamp(ContrastStage(p1[ch], st), 2000)]
        gray == Gray(p2)
        p3 == [ch \in {"r", "g", "b"} |-> SaturationStage(p2[ch], gray, st)]
    IN  VibranceStage(WarmthStage(p3, st), st)

\* the five stages on one pixel [r, g, b, a], before the clamp: the exact
\* channel values over FinalDen * Base^FinalShift
Stages(px, st) ==
    LET p1 == [r |-> BrightnessStage(px.r, st), g |-> BrightnessStage(px.g, st),
               b |-> BrightnessStage(px.b, st)]
        p2 == [r |-> ContrastStage(p1.r, st), g |-> ContrastStage(p1.g, st),
               b |-> ContrastStage(p1.b, st)]
        gray == Gray(p2)
        p3 == [r |-> SaturationStage(p2.r, gray, st),
               g |-> SaturationStage(p2.g, gray, st),
               b |-> SaturationStage(p2.b, gray, st)]
        p4 == WarmthStage(p3, st)
    IN  VibranceStage(p4, st)

EnhancePixelOpaque(px, st, rule) ==
    LET p5 == Stages(px, st) IN
    [r |-> StoreChannel(p5.r, rule), g |-> StoreChannel(p5.g, rule),
     b |-> StoreChannel(p5.b, rule), a |-> 255]

\* one iteration of the pixel loop: only data[i], data[i + 1] and
\* data[i + 2] are written
EnhancePixel(px, st, rule) ==
    LET p5 == Stages(px, st) IN
    [r |-> StoreChannel(p5.r, rule), g |-> StoreChannel(p5.g, rule),
     b |-> StoreChannel(p5.b, rule), a |-> px.a]

StoreByteNoClamp(num, den, rule) ==
    LET q == num \div den
        rem == num % den
    IN  IF 2 * rem > den THEN q + 1
        ELSE IF 2 * rem = den THEN RoundTie(q, rule)
        ELSE q

\* the clamp and the store into the Uint8ClampedArray for a value num/den
\* (den > 0) small enough for plain integers
StoreByte(num, den, rule) ==
    IF num <= 0 THEN 0
    ELSE IF num >= 255 * den THEN 255
    ELSE LET q == num \div den
             rem == num % den
         IN  IF 2 * rem > den THEN q + 1
             ELSE IF 2 * rem = den THEN RoundTie(q, rule)
             ELSE q

\* the pixel at column x, row y of an image (0-based), data being row-major
PixelAt(img, x, y) == img.data[y * img.width + x + 1]

\* sharpened = center + (center - neighbors) * amount for one channel, with
\* neighbors the mean of the four neighbours and amount = sharpness / 100:
\* (400 center + (4 center - sum) * sharpness) / 400
SharpenChannel(center, sum, sharpness, rule) ==
    StoreByte(400 * center + (4 * center - sum) * sharpness, 400, rule)

ApplySharpeningEveryColumn(img, sharpness, rule) ==
    LET w == img.width
        h == img.height
        Interior(x, y) == y >= 1 /\ y < h - 1
        Sum4(x, y, ch) == PixelAt(img, x, y - 1)[ch] + PixelAt(img, x, y + 1)[ch]
                          + PixelAt(img, x - 1, y)[ch] + PixelAt(img, x + 1, y)[ch]
        Sharpened(x, y) ==
            IF Interior(x, y)
            THEN [r |-> SharpenChannel(PixelAt(img, x, y).r, Sum4(x, y, "r"), sharpness, rule),
                  g |-> SharpenChannel(PixelAt(img, x, y).g, Sum4(x, y, "g"), sharpness, rule),
                  b |-> SharpenChannel(PixelAt(img, x, y).b, Sum4(x, y, "b"), sharpness, rule),
                  a |-> PixelAt(img, x, y).a]
            ELSE PixelAt(img, x, y)
    IN  [img EXCEPT !.data = [i \in 1..(w * h) |-> Sharpened((i - 1) % w, (i - 1) \div w)]]

\* a sharpening pass without tempData: every interior pixel is recomputed, in
\* row-major order, from the buffer as the pixels before it have left it
ApplySharpeningInPlace(img, sharpness, rule) ==
    LET w == img.width
        h == img.height
        Interior(x, y) == x >= 1 /\ x < w - 1 /\ y >= 1 /\ y < h - 1
        Sum4(buf, x, y, ch) ==
            PixelAt(buf, x, y - 1)[ch] + PixelAt(buf, x, y + 1)[ch]
            + PixelAt(buf, x - 1, y)[ch] + PixelAt(buf, x + 1, y)[ch]
        Sharpened(buf, x, y) ==
            [ch \in {"r", "g", "b", "a"} |->
                IF ch = "a" THEN PixelAt(buf, x, y).a
                ELSE SharpenChannel(PixelAt(buf, x, y)[ch], Sum4(buf, x, y, ch),
                                    sharpness, rule)]
        RECURSIVE From(_, _)
        From(buf, k) ==
            IF k > w * h THEN buf
            ELSE IF Interior((k - 1) % w, (k - 1) \div w)
            THEN From([buf EXCEPT !.data[k] =
                          Sharpened(buf, (k - 1) % w, (k - 1) \div w)], k + 1)
            ELSE From(buf, k + 1)
    IN  From(img, 1)

\* applySharpening: every interior pixel is recomputed from tempData, the
\* copy of the buffer taken before the loop; border pixels and alpha stay
ApplySharpening(img, sharpness, rule) ==
    LET w == img.width
        h == img.height
        Interior(x, y) == x >= 1 /\ x < w - 1 /\ y >= 1 /\ y < h - 1
        Sum4(x, y, ch) == PixelAt(img, x, y - 1)[ch] + PixelAt(img, x, y + 1)[ch]
                          + PixelAt(img, x - 1, y)[ch] + PixelAt(img, x + 1, y)[ch]
        Sharpened(x, y) ==
            IF Interior(x, y)
            THEN [r |-> SharpenChannel(PixelAt(img, x, y).r, Sum4(x, y, "r"), sharpness, rule),
                  g |-> SharpenChannel(PixelAt(img, x, y).g, Sum4(x, y, "g"), sharpness, rule),
                  b |-> SharpenChannel(PixelAt(img, x, y).b, Sum4(x, y, "b"), sharpness, rule),
                  a |-> PixelAt(img, x, y).a]
            ELSE PixelAt(img, x, y)
    IN  [img EXCEPT !.data = [i \in 1..(w * h) |-> Sharpened((i - 1) % w, (i - 1) \div w)]]

\* the pixel loop of applyEnhancements over the buffer img: every pixel goes
\* through the stages, in place
PixelLoop(img, st, rule) ==
    [img EXCEPT !.data = [i \in 1..Len(img.data) |->
                             EnhancePixel(img.data[i], st, rule)]]

\* applyEnhancements on the original image img under one halfway rule: the
\* canvas takes the size of the image, the image is drawn, every pixel goes
\* through the stages, and the sharpening pass follows when
\* settings.sharpness > 0.  img.data stands for the bytes getImageData
\* returns once the image is drawn.
ApplyEnhancementsWith(img, st, rule) ==
    LET data == PixelLoop(img, st, rule)
    IN  IF st.sharpness > 0
        THEN ApplySharpening(data, st.sharpness, rule)
        ELSE data

\* the canvas contents a run of applyEnhancements can leave
ApplyEnhancements(img, st) ==
    {ApplyEnhancementsWith(img, st, rule) : rule \in TieRules}

-----------------------------------------------------------------------------
\* ImageEnhancer: the editing session

NoImage == [width |-> 0, height |-> 0, data |-> << >>]
NoLoad == [pending |-> FALSE, img |-> NoImage, settings |-> DEFAULT_SETTINGS]

\* lastEdit before any interaction, and after one: kind is "preset",
\* "slider" or "reset", key the preset id or the slider key, marked whether
\* selectedPreset was not null when the handler ran
NoEdit == [kind |-> "none", key |-> "", marked |-> FALSE]
Edit(kind, key) == [kind |-> kind, key |-> key, marked |-> selectedPreset # "null"]
Blank == [width |-> 0, height |-> 0, data |-> << >>]

\* sliderControls: the keys with their min and max
SliderControls ==
    <<[key |-> "brightness", min |-> -50, max |-> 50],
      [key |-> "contrast", min |-> -50, max |-> 50],
      [key |-> "saturation", min |-> -50, max |-> 50],
      [key |-> "sharpness", min |-> 0, max |-> 100],
      [key |-> "warmth", min |-> -30, max |-> 30],
      [key |-> "vibrance", min |-> -50, max |-> 50]>>

\* the slider positions the model moves a slider to: its two ends
SliderSamples(c) == {SliderControls[c].min, SliderControls[c].max}

\* the channel values the test images are made of
ChannelSamples == {0, 1, 128, 255}

Pixel(r, g, b, a) == [r |-> r, g |-> g, b |-> b, a |-> a]

\* the images imageUrl can decode to: every 1x1 image over the channel
\* samples, and 3x3 images with one interior pixel
TestImages ==
    {[width |-> 1, height |-> 1, data |-> <<Pixel(r, g, b, 255)>>] :
        r \in ChannelSamples, g \in ChannelSamples, b \in ChannelSamples}
    \cup
    {[width |-> 3, height |-> 3,
      data |-> <<Pixel(n, n, n, 255), Pixel(n, 0, 255, 128), Pixel(n, n, n, 255),
                 Pixel(0, n, 128, 255), Pixel(c, 255 - c, n, 128), Pixel(n, 1, 0, 255),
                 Pixel(n, n, n, 255), Pixel(255, n, 1, 0), Pixel(n, n, n, 255)>>] :
        c \in {40, 200}, n \in {90}}

\* the state after the component has mounted with isOpen and imageUrl set:
\* the load effect has created the Image element, whose onload handler holds
\* the applyEnhancements of that render, and with it that render's settings
EnhancerInit ==
    /\ originalImage = NoImage
    /\ \E img \in TestImages :
           loading = [pending |-> TRUE, img |-> img, settings |-> DEFAULT_SETTINGS]
    /\ settings = DEFAULT_SETTINGS
    /\ selectedPreset = "null"
    /\ canvas = Blank
    /\ applied = DEFAULT_SETTINGS
    /\ edits = 0
    /\ enhancerIsOpen = TRUE
    /\ lastEdit = NoEdit
    /\ enhIsProcessing = FALSE
    /\ isAutoEnhancing = FALSE
    /\ enhDownloads = << >>

\* the effect on [settings]: if (originalImageRef.current) applyEnhancements()
\* with the settings of the new render
SettingsEffect(st) ==
    IF originalImage # NoImage
    THEN /\ canvas' \in ApplyEnhancements(originalImage, st)
         /\ applied' = st
    ELSE UNCHANGED <<canvas, applied>>

\* img.onload: originalImageRef.current = img; applyEnhancements()
ImageLoaded ==
    /\ loading.pending
    /\ originalImage' = loading.img
    /\ canvas' \in ApplyEnhancements(loading.img, loading.settings)
    /\ applied' = loading.settings
    /\ loading' = NoLoad
    /\ UNCHANGED <<settings, selectedPreset, edits, enhancerIsOpen, lastEdit,
                   enhIsProcessing, isAutoEnhancing, enhDownloads>>
    /\ UNCHANGED <<archiveVars, passVars, wmVars, srvVars, histVars>>

\* updateSetting(key, value) from a slider's onValueChange, then the effect;
\* the controls are rendered while isOpen
UpdateSetting(c, value) ==
    /\ enhancerIsOpen
    /\ lastEdit' = Edit("slider", SliderControls[c].key)
    /\ edits < MaxEdits
    /\ edits' = edits + 1
    /\ settings' = [settings EXCEPT ![SliderControls[c].key] = value]
    /\ selectedPreset' = "null"
    /\ SettingsEffect(settings')
    /\ UNCHANGED <<originalImage, loading, enhancerIsOpen, enhIsProcessing,
                   isAutoEnhancing, enhDownloads>>
    /\ UNCHANGED <<archiveVars, passVars, wmVars, srvVars, histVars>>

\* applyPreset(preset) from a preset button, then the effect
ApplyPreset(p) ==
    /\ enhancerIsOpen
    /\ lastEdit' = Edit("preset", AUTO_ENHANCE_PRESETS[p].id)
    /\ edits < MaxEdits
    /\ edits' = edits + 1
    /\ settings' = AUTO_ENHANCE_PRESETS[p].settings
    /\ selectedPreset' = AUTO_ENHANCE_PRESETS[p].id
    /\ SettingsEffect(settings')
    /\ UNCHANGED <<originalImage, loading, enhancerIsOpen, enhIsProcessing,
                   isAutoEnhancing, enhDownloads>>
    /\ UNCHANGED <<archiveVars, passVars, wmVars, srvVars, histVars>>

\* handleReset from the Reset button, then the effect
HandleReset ==
    /\ enhancerIsOpen
    /\ lastEdit' = Edit("reset", "")
    /\ edits < MaxEdits
    /\ edits' = edits + 1
    /\ settings' = DEFAULT_SETTINGS
    /\ selectedPreset' = "null"
    /\ SettingsEffect(settings')
    /\ UNCHANGED <<originalImage, loading, enhancerIsOpen, enhIsProcessing,
                   isAutoEnhancing, enhDownloads>>
    /\ UNCHANGED <<archiveVars, passVars, wmVars, srvVars, histVars>>

\* handleAutoEnhance from the AI Auto-Enhance button (disabled while
\* isAutoEnhancing) up to its await: the 1.5 s timer is started
HandleAutoEnhance ==
    /\ enhancerIsOpen
    /\ ~isAutoEnhancing
    /\ lastEdit' = Edit("auto-click", "")
    /\ isAutoEnhancing' = TRUE
    /\ UNCHANGED <<originalImage, loading, settings, selectedPreset, canvas, applied,
                   edits, enhancerIsOpen, enhIsProcessing, enhDownloads>>
    /\ UNCHANGED <<archiveVars, passVars, wmVars, srvVars, histVars>>

\* a completion that marks the preset and leaves the settings as the edits
\* made since the click have left them
AutoEnhanceAppliedMarkerOnly ==
    /\ isAutoEnhancing
    /\ lastEdit' = Edit("auto", lastEdit.kind)
    /\ selectedPreset' = "auto"
    /\ isAutoEnhancing' = FALSE
    /\ UNCHANGED <<originalImage, loading, settings, canvas, applied, edits,
                   enhancerIsOpen, enhIsProcessing, enhDownloads>>
    /\ UNCHANGED <<archiveVars, passVars, wmVars, srvVars, histVars>>

\* handleAutoEnhance after its await, when the timer has fired: the settings
\* of AUTO_ENHANCE_PRESETS[0] and the marker "auto", then the effect.
\* lastEdit keeps the kind of the handler that ran last before the timer.
AutoEnhanceApplied ==
    /\ isAutoEnhancing
    /\ lastEdit' = Edit("auto", lastEdit.kind)
    /\ settings' = AUTO_ENHANCE_PRESETS[1].settings
    /\ selectedPreset' = "auto"
    /\ isAutoEnhancing' = FALSE
    /\ SettingsEffect(settings')
    /\ UNCHANGED <<originalImage, loading, edits, enhancerIsOpen, enhIsProcessing,
                   enhDownloads>>
    /\ UNCHANGED <<archiveVars, passVars, wmVars, srvVars, histVars>>

\* a handleDownload that raises no toast when the export fails
DownloadToastsSilent(ok, success) == IF ok THEN <<success>> ELSE << >>

\* the toasts one run of handleDownload raises, in either editor: the try
\* block ends with toast.success, the catch block is one toast.error
DownloadToasts(ok, success) ==
    IF ok THEN <<success>> ELSE <<"Failed to download image">>

\* handleDownload from the Download Enhanced button (disabled while
\* isProcessing).  The handler has no await, so it runs as one step:
\* toDataURL either returns (the link is clicked, the success toast shown and
\* onClose() called, on which the parent takes isOpen back) or throws (the
\* failure toast); isProcessing is back to false at the end either way.
HandleDownload(ok) ==
    /\ enhancerIsOpen
    /\ ~enhIsProcessing
    /\ lastEdit' = Edit("download", "")
    /\ edits < MaxEdits
    /\ edits' = edits + 1
    /\ enhDownloads' = Append(enhDownloads,
           [exported |-> ok, toasts |-> DownloadToasts(ok, "Enhanced image downloaded!")])
    /\ enhancerIsOpen' = ~ok
    /\ enhIsProcessing' = FALSE
    /\ UNCHANGED <<originalImage, loading, settings, selectedPreset, canvas, applied,
                   isAutoEnhancing>>
    /\ UNCHANGED <<archiveVars, passVars, wmVars, srvVars, histVars>>

\* the image load and the controls that set the settings at once
EnhancerNext ==
    \/ ImageLoaded
    \/ HandleReset
    \/ \E p \in DOMAIN AUTO_ENHANCE_PRESETS : ApplyPreset(p)
    \/ \E c \in DOMAIN SliderControls : \E v \in SliderSamples(c) : UpdateSetting(c, v)

-----------------------------------------------------------------------------
\* The two pixel passes on their own: the loop of applyEnhancements and
\* applySharpening as functions of the buffer they are given

\* the values a setting of the pixel loop is drawn from: the two ends of its
\* slider and the neutral 0
PassSamples(c) == SliderSamples(c) \cup {0}

\* the loop at lines 123-166 runs over the buffer
EnhancePass ==
    /\ enhanced = Blank
    /\ \E rule \in TieRules : enhanced' = PixelLoop(passImage, passSettings, rule)
    /\ UNCHANGED <<passImage, passSettings, passSharpness, sharpened>>
    /\ UNCHANGED <<archiveVars, enhVars, wmVars, srvVars, histVars>>

\* applySharpening(ctx, width, height, sharpness / 100) runs on the buffer the
\* loop has left
SharpenPass(sharpness) ==
    /\ enhanced # Blank
    /\ sharpened = Blank
    /\ passSharpness' = sharpness
    /\ \E rule \in TieRules : sharpened' = ApplySharpening(enhanced, sharpness, rule)
    /\ UNCHANGED <<passImage, passSettings, enhanced>>
    /\ UNCHANGED <<archiveVars, enhVars, wmVars, srvVars, histVars>>

\* applySharpening is called with no sharpness, half of it and the end of the
\* slider (amount is sharpness / 100)
PassesNext ==
    \/ EnhancePass
    \/ \E sharpness \in {0, 50, 100} : SharpenPass(sharpness)

-----------------------------------------------------------------------------
\* WatermarkEditor (the component with presets, lines 491-1134): its state

\* A text is the sequence of its characters; a character outside ASCII is
\* written by its code point.  A preset id is its first seven characters
\* (what startsWith("custom-") inspects) and the rest.
Id(head, tail) == [head |-> head, tail |-> tail]

\* selectedPreset = null
NoPreset == Id("", "")

DefaultText == <<"S", "e", "l", "f", "i", "e", "2", "S", "n", "a", "p">>
DefaultFontFamily == "Inter, sans-serif"

DEFAULT_PRESETS ==
    <<[id |-> Id("instagr", "am"), name |->
           <<"I", "n", "s", "t", "a", "g", "r", "a", "m", " ", "H", "a", "n", "d", "l", "e">>,
       text |-> <<"@", "y", "o", "u", "r", "h", "a", "n", "d", "l", "e">>,
       position |-> "bottom-right", fontSize |-> 20, opacity |-> 80,
       color |-> "#ffffff", fontFamily |-> "Inter, sans-serif", rotation |-> 0,
       icon |-> "social"],
      [id |-> Id("copyrig", "ht"), name |->
           <<"C", "o", "p", "y", "r", "i", "g", "h", "t", " ", "N", "o", "t", "i", "c", "e">>,
       text |-> <<"U+00A9", " ", "2", "0", "2", "4", " ", "Y", "o", "u", "r", " ", "N", "a", "m", "e">>,
       position |-> "bottom-left", fontSize |-> 16, opacity |-> 60,
       color |-> "#ffffff", fontFamily |-> "Inter, sans-serif", rotation |-> 0,
       icon |-> "copyright"],
      [id |-> Id("brand", ""), name |->
           <<"B", "r", "a", "n", "d", " ", "W", "a", "t", "e", "r", "m", "a", "r", "k">>,
       text |-> <<"S", "e", "l", "f", "i", "e", "2", "S", "n", "a", "p">>,
       position |-> "bottom-right", fontSize |-> 24, opacity |-> 70,
       color |-> "#a855f7", fontFamily |-> "Montserrat, sans-serif", rotation |-> 0,
       icon |-> "brand"],
      [id |-> Id("diagona", "l"), name |->
           <<"D", "i", "a", "g", "o", "n", "a", "l", " ", "S", "i", "g", "n", "a", "t", "u", "r", "e">>,
       text |-> <<"C", "r", "e", "a", "t", "e", "d", " ", "w", "i", "t", "h", " ", "U+2665">>,
       position |-> "center", fontSize |-> 28, opacity |-> 40,
       color |-> "#ffffff", fontFamily |-> "Dancing Script, cursive", rotation |-> -15,
       icon |-> "custom"]>>

\* a || b on a string and on a number: b when a is falsy
StrOr(a, b) == IF a = "" THEN b ELSE a
NumOr(a, b) == IF a = 0 THEN b ELSE a

\* the seven fields a new component starts with (the useState arguments)
InitialFields ==
    [text |-> DefaultText, position |-> "bottom-right", fontSize |-> 24,
     opacity |-> 70, color |-> "#ffffff", fontFamily |-> DefaultFontFamily,
     rotation |-> 0]

\* JSON.stringify of the object savePreferences builds.  The value of a
\* member is kept as the characters JSON writes for it: a string between its
\* quotes, with a quote, a backslash and a line break escaped, and a number
\* in decimal digits.  position, color and fontFamily are words without such
\* characters and are written as they are.
JsonStringify(fields) ==
    LET RECURSIVE Escape(_)
        Escape(chars) ==
            IF chars = << >> THEN << >>
            ELSE (CASE Head(chars) = "\n" -> <<"\\", "n">>
                    [] Head(chars) = "\"" -> <<"\\", "\"">>
                    [] Head(chars) = "\\" -> <<"\\", "\\">>
                    [] OTHER -> <<Head(chars)>>) \o Escape(Tail(chars))
        RECURSIVE Digits(_)
        Digits(n) == IF n < 10 THEN <<ToString(n)>>
                     ELSE Append(Digits(n \div 10), ToString(n % 10))
        Number(n) == IF n < 0 THEN <<"-">> \o Digits(-n) ELSE Digits(n)
    IN  [text |-> Escape(fields.text), position |-> fields.position,
         fontSize |-> Number(fields.fontSize), opacity |-> Number(fields.opacity),
         color |-> fields.color, fontFamily |-> fields.fontFamily,
         rotation |-> Number(fields.rotation)]

\* a JSON.parse that takes an escaped character for the character itself
JsonParseNoLineBreak(json) ==
    LET RECURSIVE Unescape(_)
        Unescape(chars) ==
            IF chars = << >> THEN << >>
            ELSE IF Head(chars) = "\\" /\ Len(chars) >= 2
            THEN <<chars[2]>> \o Unescape(Tail(Tail(chars)))
            ELSE <<Head(chars)>> \o Unescape(Tail(chars))
        Digit(c) == CHOOSE d \in 0..9 : ToString(d) = c
        RECURSIVE Value(_, _)
        Value(chars, acc) ==
            IF chars = << >> THEN acc
            ELSE Value(Tail(chars), 10 * acc + Digit(Head(chars)))
        Number(chars) == IF Head(chars) = "-" THEN 0 - Value(Tail(chars), 0)
                         ELSE Value(chars, 0)
    IN  [text |-> Unescape(json.text), position |-> json.position,
         fontSize |-> Number(json.fontSize), opacity |-> Number(json.opacity),
         color |-> json.color, fontFamily |-> json.fontFamily,
         rotation |-> Number(json.rotation)]

\* JSON.parse of a stored value: the inverse reading of the members
JsonParse(json) ==
    LET RECURSIVE Unescape(_)
        Unescape(chars) ==
            IF chars = << >> THEN << >>
            ELSE IF Head(chars) = "\\" /\ Len(chars) >= 2
            THEN <<IF chars[2] = "n" THEN "\n" ELSE chars[2]>>
                 \o Unescape(Tail(Tail(chars)))
            ELSE <<Head(chars)>> \o Unescape(Tail(chars))
        Digit(c) == CHOOSE d \in 0..9 : ToString(d) = c
        RECURSIVE Value(_, _)
        Value(chars, acc) ==
            IF chars = << >> THEN acc
            ELSE Value(Tail(chars), 10 * acc + Digit(Head(chars)))
        Number(chars) == IF Head(chars) = "-" THEN 0 - Value(Tail(chars), 0)
                         ELSE Value(chars, 0)
    IN  [text |-> Unescape(json.text), position |-> json.position,
         fontSize |-> Number(json.fontSize), opacity |-> Number(json.opacity),
         color |-> json.color, fontFamily |-> json.fontFamily,
         rotation |-> Number(json.rotation)]

\* the mount effect on the stored preferences: saved is << >> when the key
\* is absent, <<json>> otherwise
LoadPreferences(saved) ==
    IF saved = << >> THEN InitialFields
    ELSE LET prefs == JsonParse(saved[1]) IN
         [text |-> IF prefs.text = << >> THEN DefaultText ELSE prefs.text,
          position |-> StrOr(prefs.position, "bottom-right"),
          fontSize |-> NumOr(prefs.fontSize, 24),
          opacity |-> NumOr(prefs.opacity, 70),
          color |-> StrOr(prefs.color, "#ffffff"),
          fontFamily |-> StrOr(prefs.fontFamily, DefaultFontFamily),
          rotation |-> NumOr(prefs.rotation, 0)]

\* the seven fields as savePreferences and saveCustomPreset read them
CurrentFields ==
    [text |-> text, position |-> position, fontSize |-> fontSize,
     opacity |-> opacity, color |-> color, fontFamily |-> fontFamily,
     rotation |-> rotation]

\* const allPresets = [...DEFAULT_PRESETS, ...presets]
AllPresets == DEFAULT_PRESETS \o presets

\* preset.id.startsWith("custom-")
StartsWithCustom(id) == id.head = "custom-"

DeleteButtonRenderedOnEveryCard(preset) == TRUE

\* whether the delete button of a preset card is rendered
DeleteButtonRendered(preset) == StartsWithCustom(preset.id)

DownloadDisabledWhileProcessing == isProcessing

\* disabled={isProcessing || !text} of the Download button
DownloadDisabled == isProcessing \/ text = << >>

\* newPresetName.trim(): the name from its first to its last character that
\* is not a space
Trim(name) ==
    LET kept == {i \in 1..Len(name) : name[i] # " "} IN
    IF kept = {} THEN << >>
    ELSE SubSeq(name, CHOOSE i \in kept : \A j \in kept : i <= j,
                      CHOOSE i \in kept : \A j \in kept : i >= j)

\* what the localStorage keys hold in the sessions the model starts from:
\* nothing, or a preset and the preferences an earlier session has saved
StoredPreset ==
    [id |-> Id("custom-", "1"), name |-> <<"M", "i", "n", "e">>,
     text |-> <<"A", "\n", "B">>, position |-> "top-left", fontSize |-> 72,
     opacity |-> 10, color |-> "#000000", fontFamily |-> "Oswald, sans-serif",
     rotation |-> -45, icon |-> "custom"]

\* wmLastOp: kind is "preset", "edit", "reset", "save", "delete", "dialog",
\* "name" or "download"; preset the preset applied or deleted; field the field
\* edited; marked whether selectedPreset was not null when the handler ran;
\* times how many times in a row the preset has been applied
NullPreset ==
    [id |-> NoPreset, name |-> << >>, text |-> << >>, position |-> "",
     fontSize |-> 0, opacity |-> 0, color |-> "", fontFamily |-> "",
     rotation |-> 0, icon |-> ""]

NoOp == [kind |-> "none", preset |-> NullPreset, field |-> "", marked |-> FALSE,
         times |-> 0]

\* an interaction with a control of the open editor
Interaction(kind, preset, field) ==
    /\ watermarkIsOpen
    /\ wmOps < MaxWmOps
    /\ wmOps' = wmOps + 1
    /\ wmLastOp' =
           [kind |-> kind, preset |-> preset, field |-> field,
            marked |-> wmSelectedPreset # NoPreset,
            times |-> IF kind = "preset" /\ wmLastOp.kind = "preset"
                         /\ wmLastOp.preset = preset
                      THEN wmLastOp.times + 1 ELSE 1]

\* the state after the component has mounted and its mount effect has read
\* the two localStorage keys
WatermarkInit ==
    /\ watermarkIsOpen = TRUE
    /\ localStorage \in
           {[presets |-> << >>, preferences |-> << >>],
            [presets |-> <<StoredPreset>>,
             preferences |-> <<JsonStringify(
                                   [text |-> <<"\"", "H", "i", "\"", "\\", "\n", "n">>,
                                    position |-> "center", fontSize |-> 12,
                                    opacity |-> 100, color |-> "#fbbf24",
                                    fontFamily |-> "Roboto, sans-serif",
                                    rotation |-> 0])>>]}
    /\ presets = localStorage.presets
    /\ LET fields == LoadPreferences(localStorage.preferences) IN
       /\ text = fields.text
       /\ position = fields.position
       /\ fontSize = fields.fontSize
       /\ opacity = fields.opacity
       /\ color = fields.color
       /\ fontFamily = fields.fontFamily
       /\ rotation = fields.rotation
    /\ isProcessing = FALSE
    /\ wmSelectedPreset = NoPreset
    /\ showSaveDialog = FALSE
    /\ newPresetName = << >>
    /\ now = 2
    /\ downloads = << >>
    /\ wmToast = "none"
    /\ wmOps = 0
    /\ wmLastOp = NoOp
    /\ imageSize = [width |-> 400, height |-> 300]
    /\ fillTexts = << >>
    /\ drawnBy = "none"
    /\ wmLoads = IF LoadPreferences(localStorage.preferences) = InitialFields
                 THEN <<InitialFields>>
                 ELSE <<InitialFields, LoadPreferences(localStorage.preferences)>>
    /\ wmCanvas = << >>

\* the draw effect after the render a handler has caused: drawWatermark is a
\* new callback when one of the seven fields has changed, and the effect then
\* creates an Image element whose onload holds the fields of that render
DrawEffect ==
    /\ UNCHANGED <<watermarkIsOpen, isProcessing, imageSize, fillTexts, drawnBy>>
    /\ wmLoads' = IF CurrentFields' = CurrentFields THEN wmLoads
                  ELSE Append(wmLoads, CurrentFields')
    /\ wmCanvas' = wmCanvas

\* the fields and the marker applyPreset(preset) sets
AppliedPresetToggle(preset) ==
    [text |-> preset.text, position |-> preset.position, fontSize |-> preset.fontSize,
     opacity |-> preset.opacity, color |-> preset.color,
     fontFamily |-> StrOr(preset.fontFamily, DefaultFontFamily),
     rotation |-> NumOr(preset.rotation, 0),
     selectedPreset |-> IF wmSelectedPreset = preset.id THEN NoPreset ELSE preset.id]

AppliedPreset(preset) ==
    [text |-> preset.text, position |-> preset.position, fontSize |-> preset.fontSize,
     opacity |-> preset.opacity, color |-> preset.color,
     fontFamily |-> StrOr(preset.fontFamily, DefaultFontFamily),
     rotation |-> NumOr(preset.rotation, 0),
     selectedPreset |-> preset.id]

\* applyPreset(preset) from the card of allPresets[k]
WatermarkApplyPreset(k) ==
    /\ Interaction("preset", AllPresets[k], "")
    /\ LET a == AppliedPreset(AllPresets[k]) IN
       /\ text' = a.text
       /\ position' = a.position
       /\ fontSize' = a.fontSize
       /\ opacity' = a.opacity
       /\ color' = a.color
       /\ fontFamily' = a.fontFamily
       /\ rotation' = a.rotation
       /\ wmSelectedPreset' = a.selectedPreset
    /\ UNCHANGED <<presets, showSaveDialog, newPresetName, localStorage, now,
                   downloads, wmToast>>
    /\ DrawEffect
    /\ UNCHANGED <<archiveVars, enhVars, passVars, srvVars, histVars>>

\* setShowSaveDialog(true) from either Save Preset button
OpenSaveDialog ==
    /\ Interaction("dialog", NullPreset, "")
    /\ showSaveDialog' = TRUE
    /\ UNCHANGED <<text, position, fontSize, opacity, color, fontFamily, rotation,
                   presets, wmSelectedPreset, newPresetName, localStorage, now,
                   downloads, wmToast>>
    /\ DrawEffect
    /\ UNCHANGED <<archiveVars, enhVars, passVars, srvVars, histVars>>

\* setShowSaveDialog(false) from the Cancel button of the dialog
CancelSaveDialog ==
    /\ showSaveDialog
    /\ Interaction("dialog", NullPreset, "")
    /\ showSaveDialog' = FALSE
    /\ UNCHANGED <<text, position, fontSize, opacity, color, fontFamily, rotation,
                   presets, wmSelectedPreset, newPresetName, localStorage, now,
                   downloads, wmToast>>
    /\ DrawEffect
    /\ UNCHANGED <<archiveVars, enhVars, passVars, srvVars, histVars>>

\* setNewPresetName(e.target.value) from the input of the dialog
OnPresetNameChange(name) ==
    /\ showSaveDialog
    /\ Interaction("name", NullPreset, "")
    /\ newPresetName' = name
    /\ UNCHANGED <<text, position, fontSize, opacity, color, fontFamily, rotation,
                   presets, wmSelectedPreset, showSaveDialog, localStorage, now,
                   downloads, wmToast>>
    /\ DrawEffect
    /\ UNCHANGED <<archiveVars, enhVars, passVars, srvVars, histVars>>

\* saveCustomPreset from the Save button of the dialog; Date.now() returns a
\* value not below the last one
SaveCustomPreset ==
    /\ showSaveDialog
    /\ Interaction("save", NullPreset, "")
    /\ IF Trim(newPresetName) = << >>
       THEN /\ wmToast' = "Please enter a preset name"
            /\ UNCHANGED <<presets, localStorage, newPresetName, showSaveDialog, now>>
       ELSE \E t \in {now, now + 1} :
            LET newPreset == [id |-> Id("custom-", ToString(t)),
                              name |-> newPresetName, text |-> text,
                              position |-> position, fontSize |-> fontSize,
                              opacity |-> opacity, color |-> color,
                              fontFamily |-> fontFamily, rotation |-> rotation,
                              icon |-> "custom"]
                updatedPresets == Append(presets, newPreset)
            IN  /\ now' = t
                /\ presets' = updatedPresets
                /\ localStorage' = [localStorage EXCEPT !.presets = updatedPresets]
                /\ newPresetName' = << >>
                /\ showSaveDialog' = FALSE
                /\ wmToast' = "Preset saved!"
    /\ UNCHANGED <<text, position, fontSize, opacity, color, fontFamily, rotation,
                   wmSelectedPreset, downloads>>
    /\ DrawEffect
    /\ UNCHANGED <<archiveVars, enhVars, passVars, srvVars, histVars>>

\* deletePreset(preset.id) from the delete button of the card of allPresets[k]
DeletePreset(k) ==
    /\ k \in DOMAIN AllPresets
    /\ DeleteButtonRendered(AllPresets[k])
    /\ Interaction("delete", AllPresets[k], "")
    /\ LET presetId == AllPresets[k].id
           updatedPresets == SelectSeq(presets, LAMBDA p : p.id # presetId)
       IN  /\ presets' = updatedPresets
           /\ localStorage' = [localStorage EXCEPT !.presets = updatedPresets]
           /\ wmSelectedPreset' =
                  IF wmSelectedPreset = presetId THEN NoPreset ELSE wmSelectedPreset
    /\ wmToast' = "Preset deleted"
    /\ UNCHANGED <<text, position, fontSize, opacity, color, fontFamily, rotation,
                   showSaveDialog, newPresetName, now, downloads>>
    /\ DrawEffect
    /\ UNCHANGED <<archiveVars, enhVars, passVars, srvVars, histVars>>

\* The controls of the Customize tab.  Each handler sets its field and
\* clears the marker.

\* onChange of the textarea
OnTextChange(v) ==
    /\ Interaction("edit", NullPreset, "text")
    /\ text' = v
    /\ wmSelectedPreset' = NoPreset
    /\ UNCHANGED <<position, fontSize, opacity, color, fontFamily, rotation,
                   presets, showSaveDialog, newPresetName, localStorage, now,
                   downloads, wmToast>>
    /\ DrawEffect
    /\ UNCHANGED <<archiveVars, enhVars, passVars, srvVars, histVars>>

\* onClick of a font button: v is the value of one of FONT_FAMILIES
OnFontClick(v) ==
    /\ Interaction("edit", NullPreset, "fontFamily")
    /\ fontFamily' = v
    /\ wmSelectedPreset' = NoPreset
    /\ UNCHANGED <<text, position, fontSize, opacity, color, rotation,
                   presets, showSaveDialog, newPresetName, localStorage, now,
                   downloads, wmToast>>
    /\ DrawEffect
    /\ UNCHANGED <<archiveVars, enhVars, passVars, srvVars, histVars>>

\* onClick of a position button: v is the id of one of POSITIONS
OnPositionClick(v) ==
    /\ Interaction("edit", NullPreset, "position")
    /\ position' = v
    /\ wmSelectedPreset' = NoPreset
    /\ UNCHANGED <<text, fontSize, opacity, color, fontFamily, rotation,
                   presets, showSaveDialog, newPresetName, localStorage, now,
                   downloads, wmToast>>
    /\ DrawEffect
    /\ UNCHANGED <<archiveVars, enhVars, passVars, srvVars, histVars>>

\* onValueChange of the Size slider (12..72, step 2)
OnFontSizeChange(v) ==
    /\ Interaction("edit", NullPreset, "fontSize")
    /\ fontSize' = v
    /\ wmSelectedPreset' = NoPreset
    /\ UNCHANGED <<text, position, opacity, color, fontFamily, rotation,
                   presets, showSaveDialog, newPresetName, localStorage, now,
                   downloads, wmToast>>
    /\ DrawEffect
    /\ UNCHANGED <<archiveVars, enhVars, passVars, srvVars, histVars>>

OnRotationChangeKeepsMarker(v) ==
    /\ Interaction("edit", NullPreset, "rotation")
    /\ rotation' = v
    /\ UNCHANGED wmSelectedPreset
    /\ UNCHANGED <<text, position, fontSize, opacity, color, fontFamily,
                   presets, showSaveDialog, newPresetName, localStorage, now,
                   downloads, wmToast>>
    /\ DrawEffect
    /\ UNCHANGED <<archiveVars, enhVars, passVars, srvVars, histVars>>

\* onValueChange of the Rotation slider (-45..45, step 5)
OnRotationChange(v) ==
    /\ Interaction("edit", NullPreset, "rotation")
    /\ rotation' = v
    /\ wmSelectedPreset' = NoPreset
    /\ UNCHANGED <<text, position, fontSize, opacity, color, fontFamily,
                   presets, showSaveDialog, newPresetName, localStorage, now,
                   downloads, wmToast>>
    /\ DrawEffect
    /\ UNCHANGED <<archiveVars, enhVars, passVars, srvVars, histVars>>

\* onValueChange of the Opacity slider (10..100, step 5)
OnOpacityChange(v) ==
    /\ Interaction("edit", NullPreset, "opacity")
    /\ opacity' = v
    /\ wmSelectedPreset' = NoPreset
    /\ UNCHANGED <<text, position, fontSize, color, fontFamily, rotation,
                   presets, showSaveDialog, newPresetName, localStorage, now,
                   downloads, wmToast>>
    /\ DrawEffect
    /\ UNCHANGED <<archiveVars, enhVars, passVars, srvVars, histVars>>

\* onClick of a colour swatch: v is the value of one of COLORS
OnColorClick(v) ==
    /\ Interaction("edit", NullPreset, "color")
    /\ color' = v
    /\ wmSelectedPreset' = NoPreset
    /\ UNCHANGED <<text, position, fontSize, opacity, fontFamily, rotation,
                   presets, showSaveDialog, newPresetName, localStorage, now,
                   downloads, wmToast>>
    /\ DrawEffect
    /\ UNCHANGED <<archiveVars, enhVars, passVars, srvVars, histVars>>

\* onChange of the colour input
OnColorInput(v) ==
    /\ Interaction("edit", NullPreset, "color")
    /\ color' = v
    /\ wmSelectedPreset' = NoPreset
    /\ UNCHANGED <<text, position, fontSize, opacity, fontFamily, rotation,
                   presets, showSaveDialog, newPresetName, localStorage, now,
                   downloads, wmToast>>
    /\ DrawEffect
    /\ UNCHANGED <<archiveVars, enhVars, passVars, srvVars, histVars>>

\* handleReset from the Reset button
WatermarkHandleReset ==
    /\ Interaction("reset", NullPreset, "")
    /\ text' = DefaultText
    /\ position' = "bottom-right"
    /\ fontSize' = 24
    /\ opacity' = 70
    /\ color' = "#ffffff"
    /\ fontFamily' = DefaultFontFamily
    /\ rotation' = 0
    /\ wmSelectedPreset' = NoPreset
    /\ UNCHANGED <<presets, showSaveDialog, newPresetName, localStorage, now,
                   downloads, wmToast>>
    /\ DrawEffect
    /\ UNCHANGED <<archiveVars, enhVars, passVars, srvVars, histVars>>

\* handleDownload from the Download button, which takes no click while it is
\* disabled.  The handler has no await, so it runs as one step:
\* savePreferences(), then toDataURL either returns (the link is clicked, the
\* success toast shown and onClose() called, on which the parent unmounts the
\* editor) or throws (the failure toast); isProcessing is back to false at
\* the end either way.
WatermarkHandleDownload(ok) ==
    /\ ~DownloadDisabled
    /\ Interaction("download", NullPreset, "")
    /\ localStorage' = [localStorage EXCEPT
                           !.preferences = <<JsonStringify(CurrentFields)>>]
    /\ LET toasts == DownloadToasts(ok, "Downloaded with watermark!") IN
       /\ downloads' = Append(downloads,
              [text |-> text, exported |-> ok, toasts |-> toasts,
               fields |-> CurrentFields, canvas |-> wmCanvas])
       /\ wmToast' = toasts[Len(toasts)]
    /\ watermarkIsOpen' = ~ok
    /\ isProcessing' = FALSE
    /\ UNCHANGED <<text, position, fontSize, opacity, color, fontFamily, rotation,
                   presets, wmSelectedPreset, showSaveDialog, newPresetName, now>>
    /\ UNCHANGED <<imageSize, fillTexts, drawnBy, wmLoads, wmCanvas>>
    /\ UNCHANGED <<archiveVars, enhVars, passVars, srvVars, histVars>>

\* img.onload of the k-th pending Image element of drawWatermark: the canvas
\* is drawn with the image and the fields that element has captured.  The
\* loads complete in any order.  Where the lines are put is DrawWatermark.
\* The canvas of an editor that was closed is gone with it.
WatermarkImageLoaded(k) ==
    /\ watermarkIsOpen
    /\ k \in DOMAIN wmLoads
    /\ wmCanvas' = <<wmLoads[k]>>
    /\ wmLoads' = [i \in 1..(Len(wmLoads) - 1) |->
                      IF i < k THEN wmLoads[i] ELSE wmLoads[i + 1]]
    /\ UNCHANGED <<watermarkIsOpen, text, position, fontSize, opacity, color,
                   fontFamily, rotation, isProcessing, presets, wmSelectedPreset,
                   showSaveDialog, newPresetName, localStorage, now, downloads,
                   wmToast, wmOps, wmLastOp, imageSize, fillTexts, drawnBy>>
    /\ UNCHANGED <<archiveVars, enhVars, passVars, srvVars, histVars>>

\* a step of the controls of the open editor; each control is given one value other than the
\* initial one (the text and the preset name two: an empty or blank one and
\* another)
WatermarkNext ==
    \/ \E k \in DOMAIN AllPresets : WatermarkApplyPreset(k)
    \/ \E k \in DOMAIN AllPresets : DeletePreset(k)
    \/ OpenSaveDialog
    \/ CancelSaveDialog
    \/ \E name \in {<<" ">>, <<"M", "y">>} : OnPresetNameChange(name)
    \/ SaveCustomPreset
    \/ \E v \in {<< >>, <<"A", "\n", "B">>} : OnTextChange(v)
    \/ \E v \in {"Oswald, sans-serif"} : OnFontClick(v)
    \/ \E v \in {"top-left"} : OnPositionClick(v)
    \/ \E v \in {72} : OnFontSizeChange(v)
    \/ \E v \in {-45} : OnRotationChange(v)
    \/ \E v \in {10} : OnOpacityChange(v)
    \/ \E v \in {"#000000"} : OnColorClick(v)
    \/ \E v \in {"#123456"} : OnColorInput(v)
    \/ WatermarkHandleReset
    \/ \E ok \in BOOLEAN : WatermarkHandleDownload(ok)

-----------------------------------------------------------------------------
\* drawWatermark: where the text is put.  A coordinate is an exact fraction
\* over Unit, so that fontSize * 1.3 and the halves are integers.

Unit == 20

\* const padding = 30 of the component with presets, const padding = 20 of
\* the one-line component (lines 40-349)
Padding == 30
OneLinePadding == 20

\* text.split("\n")
Split(chars) ==
    LET RECURSIVE SplitFrom(_, _)
        SplitFrom(rest, line) ==
            IF rest = << >> THEN <<line>>
            ELSE IF Head(rest) = "\n" THEN <<line>> \o SplitFrom(Tail(rest), << >>)
            ELSE SplitFrom(Tail(rest), Append(line, Head(rest)))
    IN  SplitFrom(chars, << >>)

\* const lineHeight = fontSize * 1.3, over Unit
LineHeightTight(size) == 24 * size

LineHeight(size) == 26 * size

\* const totalHeight = lineHeight * lines.length, over Unit
TotalHeight(size, n) == LineHeight(size) * n

\* maxWidth = Math.max(maxWidth, metrics.width) over the lines, from 0
RECURSIVE MaxWidth(_)
MaxWidth(widths) ==
    IF widths = << >> THEN 0
    ELSE LET rest == MaxWidth(Tail(widths)) IN
         IF Head(widths) > rest THEN Head(widths) ELSE rest

\* baseX of the switch on position, over Unit; the default branch is the
\* bottom-right one
BaseX(pos, width, maxWidth) ==
    CASE pos \in {"top-left", "bottom-left"} -> Unit * Padding + (Unit \div 2) * maxWidth
      [] pos = "center" -> (Unit \div 2) * width
      [] OTHER -> Unit * width - Unit * Padding - (Unit \div 2) * maxWidth

\* baseY of the switch on position, over Unit
BaseYBelowBlock(pos, height, size, n) ==
    CASE pos \in {"top-left", "top-right"} -> Unit * (Padding + size)
      [] pos = "center" -> (Unit \div 2) * height - TotalHeight(size, n) \div 2 + Unit * size
      [] OTHER -> Unit * height - Unit * Padding

BaseY(pos, height, size, n) ==
    CASE pos \in {"top-left", "top-right"} -> Unit * (Padding + size)
      [] pos = "center" -> (Unit \div 2) * height - TotalHeight(size, n) \div 2 + Unit * size
      [] OTHER -> Unit * height - Unit * Padding - TotalHeight(size, n) + Unit * size

\* the widths measureText can report for a line, in pixels: 0 for the empty
\* line, and two values for any other
LineWidths(line) == IF line = << >> THEN {0} ELSE {37, 120}

\* img.onload of drawWatermark (lines 612-683) for the state of the current
\* render: the fillText calls, each with the width measured for its line
DrawWatermark ==
    /\ watermarkIsOpen
    /\ drawnBy = "none"
    /\ LET lines == Split(text)
           n == Len(lines)
       IN  \E widths \in [1..n -> UNION {LineWidths(lines[k]) : k \in 1..n}] :
               /\ \A k \in 1..n : widths[k] \in LineWidths(lines[k])
               /\ LET baseX == BaseX(position, imageSize.width, MaxWidth(widths))
                      baseY == BaseY(position, imageSize.height, fontSize, n)
                  IN  fillTexts' = [k \in 1..n |->
                                       [line |-> lines[k], width |-> widths[k],
                                        x |-> baseX,
                                        y |-> baseY + (k - 1) * LineHeight(fontSize)]]
    /\ drawnBy' = "multi-line"
    /\ UNCHANGED <<watermarkIsOpen, text, position, fontSize, opacity, color,
                   fontFamily, rotation, isProcessing, presets, wmSelectedPreset,
                   showSaveDialog, newPresetName, localStorage, now, downloads,
                   wmToast, wmOps, wmLastOp, imageSize, wmLoads, wmCanvas>>
    /\ UNCHANGED <<archiveVars, enhVars, passVars, srvVars, histVars>>

\* the x and y of the one fillText call of the one-line component (lines
\* 97-128), over Unit; the text is drawn from x to the right
OneLineX(pos, width, textWidth) ==
    CASE pos \in {"top-left", "bottom-left"} -> Unit * OneLinePadding
      [] pos = "center" -> (Unit \div 2) * (width - textWidth)
      [] OTHER -> Unit * (width - textWidth - OneLinePadding)

OneLineY(pos, height, textHeight) ==
    CASE pos \in {"top-left", "top-right"} -> Unit * (OneLinePadding + textHeight)
      [] pos = "center" -> (Unit \div 2) * height + (Unit \div 2) * textHeight
      [] OTHER -> Unit * (height - OneLinePadding)

\* img.onload of drawWatermark of the one-line component (lines 84-137); its
\* text comes from an input element and has no line break
DrawWatermarkOneLine ==
    /\ watermarkIsOpen
    /\ drawnBy = "none"
    /\ Len(Split(text)) = 1
    /\ \E textWidth \in LineWidths(text) :
           fillTexts' = <<[line |-> text, width |-> textWidth,
                           x |-> OneLineX(position, imageSize.width, textWidth),
                           y |-> OneLineY(position, imageSize.height, fontSize)]>>
    /\ drawnBy' = "one-line"
    /\ UNCHANGED <<watermarkIsOpen, text, position, fontSize, opacity, color,
                   fontFamily, rotation, isProcessing, presets, wmSelectedPreset,
                   showSaveDialog, newPresetName, localStorage, now, downloads,
                   wmToast, wmOps, wmLastOp, imageSize, wmLoads, wmCanvas>>
    /\ UNCHANGED <<archiveVars, enhVars, passVars, srvVars, histVars>>

LayoutNext == DrawWatermark \/ DrawWatermarkOneLine

-----------------------------------------------------------------------------
\* The generate-snaps function: the handler passed to serve.  An action is
\* the handler from one await to the next.

\* new Response(JSON.stringify({ error }), { status, headers })
ErrorResponse(status, error) == [status |-> status, error |-> error, imageUrl |-> ""]

NoUpstream == [settled |-> "none", status |-> 0]

\* lines 9-14: the preflight answer, or the handler up to `await req.json()`
ServeReceive ==
    /\ srvPc = "received"
    /\ IF srvRequest.method = "OPTIONS"
       THEN /\ srvResponses' = Append(srvResponses,
                   [status |-> 200, error |-> "", imageUrl |-> ""])
            /\ srvPc' = "done"
       ELSE /\ srvPc' = "req.json"
            /\ UNCHANGED srvResponses
    /\ UNCHANGED <<srvRequest, srvUpstream, srvCalls>>
    /\ UNCHANGED <<archiveVars, enhVars, passVars, wmVars, histVars>>

\* lines 14-69: req.json() settles; a body that is not JSON rejects it and
\* the catch block answers; otherwise the two checks, then fetch is called
\* with the prompt of styleDescriptions[frameStyle] || styleDescriptions.romantic
ServeParsed ==
    /\ srvPc = "req.json"
    /\ IF ~srvRequest.json
       THEN /\ srvResponses' = Append(srvResponses,
                   ErrorResponse(500, "An unexpected error occurred"))
            /\ srvPc' = "done"
            /\ UNCHANGED srvCalls
       ELSE IF srvRequest.portrait1 = "" \/ srvRequest.portrait2 = ""
       THEN /\ srvResponses' = Append(srvResponses,
                   ErrorResponse(400, "Both portraits are required"))
            /\ srvPc' = "done"
            /\ UNCHANGED srvCalls
       ELSE IF srvRequest.apiKey = ""
       THEN /\ srvResponses' = Append(srvResponses,
                   ErrorResponse(500, "API key not configured"))
            /\ srvPc' = "done"
            /\ UNCHANGED srvCalls
       ELSE /\ srvCalls' = Append(srvCalls,
                   IF srvRequest.frameStyle \in
                          {"romantic", "cinematic", "anime", "vintage", "fantasy",
                           "watercolor", "popart", "cyberpunk"}
                   THEN srvRequest.frameStyle ELSE "romantic")
            /\ srvPc' = "fetch"
            /\ UNCHANGED srvResponses
    /\ UNCHANGED <<srvRequest, srvUpstream>>
    /\ UNCHANGED <<archiveVars, enhVars, passVars, wmVars, histVars>>

\* lines 49-94: fetch settles.  A rejection goes to the catch block; an
\* answer that is not ok goes on to `await response.text()`, an ok one to
\* `await response.json()`
ServeFetched(settled, status) ==
    /\ srvPc = "fetch"
    /\ srvUpstream' = [settled |-> settled, status |-> status]
    /\ IF settled = "rejected"
       THEN /\ srvResponses' = Append(srvResponses,
                   ErrorResponse(500, "An unexpected error occurred"))
            /\ srvPc' = "done"
       ELSE /\ srvPc' = IF status >= 200 /\ status <= 299
                        THEN "response.json" ELSE "response.text"
            /\ UNCHANGED srvResponses
    /\ UNCHANGED <<srvRequest, srvCalls>>
    /\ UNCHANGED <<archiveVars, enhVars, passVars, wmVars, histVars>>

\* lines 72-91: response.text() settles; when the body cannot be read the
\* catch block answers, otherwise the answer goes by response.status
ServeErrorText(read) ==
    /\ srvPc = "response.text"
    /\ srvResponses' = Append(srvResponses,
           IF ~read THEN ErrorResponse(500, "An unexpected error occurred")
           ELSE IF srvUpstream.status = 429
           THEN ErrorResponse(429, "Rate limit exceeded. Please try again later.")
           ELSE IF srvUpstream.status = 402
           THEN ErrorResponse(402, "Credits exhausted. Please add more credits.")
           ELSE ErrorResponse(500, "Failed to generate image"))
    /\ srvPc' = "done"
    /\ UNCHANGED <<srvRequest, srvUpstream, srvCalls>>
    /\ UNCHANGED <<archiveVars, enhVars, passVars, wmVars, histVars>>

\* lines 94-110: response.json() settles: with a rejection (the catch
\* block), with data that holds no image url, or with data that holds one
ServeData(data) ==
    /\ srvPc = "response.json"
    /\ srvResponses' = Append(srvResponses,
           IF data = "rejected" THEN ErrorResponse(500, "An unexpected error occurred")
           ELSE IF data = "" THEN ErrorResponse(500, "No image generated")
           ELSE [status |-> 200, error |-> "", imageUrl |-> data])
    /\ srvPc' = "done"
    /\ UNCHANGED <<srvRequest, srvUpstream, srvCalls>>
    /\ UNCHANGED <<archiveVars, enhVars, passVars, wmVars, histVars>>

ServeNext ==
    \/ ServeReceive
    \/ ServeParsed
    \/ ServeFetched("rejected", 0)
    \/ \E status \in {200, 402, 429, 500, 503} : ServeFetched("resolved", status)
    \/ \E read \in BOOLEAN : ServeErrorText(read)
    \/ \E data \in {"rejected", "", "data:image/png;base64,SNAP"} : ServeData(data)

-----------------------------------------------------------------------------
\* The History page: the list of generated images and handleDelete.  A row
\* is known by its id; the server answers a request at the moment the
\* request settles.

\* fetchHistory after its await: setImages(data || []) or the failure toast,
\* then setLoading(false)
HistoryFetched(ok) ==
    /\ histFetches > 0
    /\ histFetches' = histFetches - 1
    /\ histImages' = IF ok THEN histRows ELSE histImages
    /\ histLoading' = FALSE
    /\ UNCHANGED <<histRows, histDeletes>>
    /\ UNCHANGED <<archiveVars, enhVars, passVars, wmVars, srvVars>>

\* handleDelete(id) from the delete button of a displayed card, up to its
\* await.  The handler is the one of the current render, so the images it
\* will filter are the images of that render.
HandleDelete(id) ==
    /\ ~histLoading
    /\ \E k \in DOMAIN histImages : histImages[k] = id
    /\ Len(histDeletes) < MaxRows
    /\ histDeletes' = Append(histDeletes,
           [id |-> id, images |-> histImages, pc |-> "pending"])
    /\ UNCHANGED <<histRows, histImages, histLoading, histFetches>>
    /\ UNCHANGED <<archiveVars, enhVars, passVars, wmVars, srvVars>>

\* handleDelete after its await: without an error
\* setImages(images.filter(img => img.id !== id)) and the success toast, with
\* one the failure toast
HistoryDeleted(j, ok) ==
    /\ histDeletes[j].pc = "pending"
    /\ LET id == histDeletes[j].id
           keep(row) == row # id
       IN  IF ok
           THEN /\ histRows' = SelectSeq(histRows, keep)
                /\ histImages' = SelectSeq(histDeletes[j].images, keep)
                /\ histDeletes' = [histDeletes EXCEPT ![j].pc = "deleted"]
           ELSE /\ histDeletes' = [histDeletes EXCEPT ![j].pc = "failed"]
                /\ UNCHANGED <<histRows, histImages>>
    /\ UNCHANGED <<histLoading, histFetches>>
    /\ UNCHANGED <<archiveVars, enhVars, passVars, wmVars, srvVars>>

HistoryNext ==
    \/ \E ok \in BOOLEAN : HistoryFetched(ok)
    \/ \E id \in 1..(MaxRows + 1) : HandleDelete(id)
    \/ \E j \in DOMAIN histDeletes, ok \in BOOLEAN : HistoryDeleted(j, ok)

-----------------------------------------------------------------------------
\* Specifications

\* the enhancer while another component is observed: closed, nothing loaded
EnhancerIdle ==
    /\ originalImage = NoImage
    /\ loading = NoLoad
    /\ settings = DEFAULT_SETTINGS
    /\ selectedPreset = "null"
    /\ canvas = Blank
    /\ applied = DEFAULT_SETTINGS
    /\ edits = 0
    /\ enhancerIsOpen = FALSE
    /\ lastEdit = NoEdit
    /\ enhIsProcessing = FALSE
    /\ isAutoEnhancing = FALSE
    /\ enhDownloads = << >>

\* the generate-snaps function while another component is observed: no
\* request
ServeIdle ==
    /\ srvRequest = [method |-> "", json |-> FALSE, portrait1 |-> "",
                     portrait2 |-> "", frameStyle |-> "", apiKey |-> ""]
    /\ srvPc = "done"
    /\ srvUpstream = NoUpstream
    /\ srvCalls = << >>
    /\ srvResponses = << >>

\* the History page while another component is observed: not mounted
HistoryIdle ==
    /\ histRows = << >>
    /\ histImages = << >>
    /\ histLoading = FALSE
    /\ histFetches = 0
    /\ histDeletes = << >>

\* the archive builder while another component is observed: no job started
ArchiveIdle ==
    /\ site = "BatchDownload"
    /\ images = << >>
    /\ isDownloading = FALSE
    /\ progress = 0
    /\ btnDisabled = TRUE
    /\ jobs = << >>

\* no pixel pass is run on its own
PassesIdle ==
    /\ passImage = NoImage
    /\ passSettings = DEFAULT_SETTINGS
    /\ enhanced = Blank
    /\ passSharpness = 0
    /\ sharpened = Blank

\* the watermark editor is not mounted
WatermarkIdle ==
    /\ watermarkIsOpen = FALSE
    /\ text = InitialFields.text
    /\ position = InitialFields.position
    /\ fontSize = InitialFields.fontSize
    /\ opacity = InitialFields.opacity
    /\ color = InitialFields.color
    /\ fontFamily = InitialFields.fontFamily
    /\ rotation = InitialFields.rotation
    /\ isProcessing = FALSE
    /\ presets = << >>
    /\ wmSelectedPreset = NoPreset
    /\ showSaveDialog = FALSE
    /\ newPresetName = << >>
    /\ localStorage = [presets |-> << >>, preferences |-> << >>]
    /\ now = 2
    /\ downloads = << >>
    /\ wmToast = "none"
    /\ wmOps = 0
    /\ wmLastOp = NoOp
    /\ imageSize = [width |-> 0, height |-> 0]
    /\ fillTexts = << >>
    /\ drawnBy = "none"
    /\ wmLoads = << >>
    /\ wmCanvas = << >>

\* either component after its first render, on any source list
Init ==
    /\ site \in {"BatchDownload", "FavoritesPanel"}
    /\ images \in SourceLists
    /\ isDownloading = FALSE
    /\ progress = 0
    /\ btnDisabled = ButtonDisabled(site, FALSE, images)
    /\ jobs = << >>
    /\ EnhancerIdle /\ PassesIdle /\ WatermarkIdle /\ ServeIdle /\ HistoryIdle

\* the archive builder
Spec == Init /\ [][ArchiveNext]_vars

\* the archive builder when every promise the handler awaits settles: the
\* fetch and the body read by the assumption that the network answers or
\* fails, generateAsync because it is a local computation
SpecSettle ==
    /\ Init
    /\ [][ArchiveNext]_vars
    /\ WF_vars(\E j \in DOMAIN jobs :
                   \/ \E st \in Statuses : FetchResolve(j, st)
                   \/ FetchReject(j)
                   \/ BlobResolve(j)
                   \/ BlobReject(j)
                   \/ GenerateResolve(j)
                   \/ GenerateReject(j))

InitEnhance == ArchiveIdle /\ EnhancerInit /\ PassesIdle /\ WatermarkIdle
    /\ ServeIdle /\ HistoryIdle

\* the image enhancer
SpecEnhance == InitEnhance /\ [][EnhancerNext]_vars

\* The buffers the passes are run on: every 1x1 image over the channel
\* samples, and the chequered images of every size up to MaxSide, in which
\* light and dark pixels alternate so that an interior pixel differs from its
\* four neighbours in every channel and in alpha.  The settings the loop is
\* run with: on a buffer of one pixel every combination of the samples of the
\* five settings it reads, on a larger one the combinations of the ends of
\* the sliders and the neutral settings.
InitPasses ==
    /\ passImage \in
           {[width |-> 1, height |-> 1, data |-> <<Pixel(r, g, b, 255)>>] :
               r \in ChannelSamples, g \in ChannelSamples, b \in ChannelSamples}
           \cup
           {[width |-> w, height |-> h,
             data |-> [i \in 1..(w * h) |->
                          IF (((i - 1) % w) + ((i - 1) \div w) + v) % 2 = 0
                          THEN Pixel(255, 200, 10, 128) ELSE Pixel(0, 40, 250, 255)]] :
               w \in 1..MaxSide, h \in 1..MaxSide, v \in {0, 1}}
    /\ passSettings \in
           {[brightness |-> b, contrast |-> c, saturation |-> s, sharpness |-> 0,
             warmth |-> w, vibrance |-> v] :
               b \in PassSamples(1), c \in PassSamples(2), s \in PassSamples(3),
               w \in PassSamples(5), v \in PassSamples(6)}
    /\ \/ Len(passImage.data) = 1
       \/ passSettings = DEFAULT_SETTINGS
       \/ \A c \in {1, 2, 3, 5, 6} : passSettings[SliderControls[c].key] # 0
    /\ enhanced = Blank
    /\ passSharpness = 0
    /\ sharpened = Blank
    /\ ArchiveIdle /\ EnhancerIdle /\ WatermarkIdle /\ ServeIdle /\ HistoryIdle

\* the pixel loop and the sharpening pass as functions
SpecPasses == InitPasses /\ [][PassesNext]_vars

InitWatermark == ArchiveIdle /\ EnhancerIdle /\ PassesIdle /\ WatermarkInit
    /\ ServeIdle /\ HistoryIdle

\* the watermark editor
SpecWatermark == InitWatermark /\ [][WatermarkNext]_vars

\* the watermark editor with its image loads: the text input, the reset and
\* the download button, and img.onload
SpecCanvas ==
    /\ InitWatermark
    /\ [][\/ \E v \in {<< >>, <<"A", "\n", "B">>} : OnTextChange(v)
          \/ WatermarkHandleReset
          \/ \E ok \in BOOLEAN : WatermarkHandleDownload(ok)
          \/ \E k \in DOMAIN wmLoads : WatermarkImageLoaded(k)]_vars

\* the states the drawing is observed from: an open editor whose text,
\* position and size have been set, on a loaded image
InitLayout ==
    /\ watermarkIsOpen = TRUE
    /\ text \in {<< >>, <<"H", "i">>, <<"A", "\n", "B">>, <<"A", "\n", "\n", "B">>}
    /\ position \in {"top-left", "top-right", "bottom-left", "bottom-right", "center"}
    /\ fontSize \in {12, 24, 72}
    /\ opacity = InitialFields.opacity
    /\ color = InitialFields.color
    /\ fontFamily = InitialFields.fontFamily
    /\ rotation = InitialFields.rotation
    /\ isProcessing = FALSE
    /\ presets = << >>
    /\ wmSelectedPreset = NoPreset
    /\ showSaveDialog = FALSE
    /\ newPresetName = << >>
    /\ localStorage = [presets |-> << >>, preferences |-> << >>]
    /\ now = 2
    /\ downloads = << >>
    /\ wmToast = "none"
    /\ wmOps = 0
    /\ wmLastOp = NoOp
    /\ imageSize \in {[width |-> 400, height |-> 300], [width |-> 120, height |-> 90]}
    /\ fillTexts = << >>
    /\ drawnBy = "none"
    /\ wmLoads = << >>
    /\ wmCanvas = << >>
    /\ ArchiveIdle /\ EnhancerIdle /\ PassesIdle /\ ServeIdle /\ HistoryIdle

\* the drawing of the watermark, by either component
SpecLayout == InitLayout /\ [][LayoutNext]_vars

\* the requests the function is called with: the method, whether the body is
\* JSON, the two portraits ("" when absent), the frame style, and whether
\* LOVABLE_API_KEY is set in the environment
InitServe ==
    /\ srvRequest \in [method : {"POST", "OPTIONS"}, json : BOOLEAN,
                       portrait1 : {"", "data:1"}, portrait2 : {"", "data:2"},
                       frameStyle : {"romantic", "anime", "sepia"},
                       apiKey : {"", "key"}]
    /\ srvPc = "received"
    /\ srvUpstream = NoUpstream
    /\ srvCalls = << >>
    /\ srvResponses = << >>
    /\ ArchiveIdle /\ EnhancerIdle /\ PassesIdle /\ WatermarkIdle /\ HistoryIdle

\* the generate-snaps function
SpecServe == InitServe /\ [][ServeNext]_vars

\* the page after its first render for a signed-in user: the auth effect has
\* called fetchHistory from the onAuthStateChange callback, from the
\* getSession continuation, or from both
InitHistory ==
    /\ histRows \in {[i \in 1..n |-> i] : n \in 1..MaxRows}
    /\ histImages = << >>
    /\ histLoading = TRUE
    /\ histFetches \in {1, 2}
    /\ histDeletes = << >>
    /\ ArchiveIdle /\ EnhancerIdle /\ PassesIdle /\ WatermarkIdle /\ ServeIdle

\* the History page
SpecHistory == InitHistory /\ [][HistoryNext]_vars

\* One of the two editors is open: the enhancer on a one-pixel image, the
\* enhancer on its second image, or the watermark editor with nothing stored
\* by a session before.  The enhancer on its second image: the preset
\* "vivid" was applied to a first image and the imageUrl prop has changed; the state is
\* kept, the canvas shows the first image, and the load effect has run again
\* (its dependencies are isOpen and imageUrl) with the applyEnhancements of
\* the current render.
InitEditors ==
    /\ ArchiveIdle
    /\ PassesIdle
    /\ ServeIdle
    /\ HistoryIdle
    /\ \/ /\ EnhancerInit
          /\ loading.img.data = <<Pixel(128, 1, 0, 255)>>
          /\ WatermarkIdle
       \/ /\ WatermarkIdle
          /\ LET first == [width |-> 1, height |-> 1,
                           data |-> <<Pixel(128, 1, 0, 255)>>]
                 second == [width |-> 1, height |-> 1,
                            data |-> <<Pixel(128, 1, 255, 255)>>]
                 preset == AUTO_ENHANCE_PRESETS[2]
             IN  /\ originalImage = first
                 /\ loading = [pending |-> TRUE, img |-> second,
                               settings |-> preset.settings]
                 /\ settings = preset.settings
                 /\ selectedPreset = preset.id
                 /\ canvas \in ApplyEnhancements(first, preset.settings)
                 /\ applied = preset.settings
                 /\ edits = 0
                 /\ enhancerIsOpen = TRUE
                 /\ lastEdit = NoEdit
                 /\ enhIsProcessing = FALSE
                 /\ isAutoEnhancing = FALSE
                 /\ enhDownloads = << >>
       \/ /\ EnhancerIdle
          /\ WatermarkInit
          /\ localStorage.presets = << >>

\* every control of the two editors, the delayed auto-enhance and the two
\* download buttons included
EditorsNext ==
    \/ EnhancerNext
    \/ HandleAutoEnhance
    \/ AutoEnhanceApplied
    \/ \E ok \in BOOLEAN : HandleDownload(ok)
    \/ WatermarkNext

\* the image enhancer and the watermark editor
SpecEditors == InitEditors /\ [][EditorsNext]_vars

-----------------------------------------------------------------------------
\* Properties of the archive builder

\* the job has left its loop: generateAsync was called (or has settled)
LoopDone(job) == job.genCalls > 0

\* the source positions (0-based) of the list
Positions == 0..(Len(images) - 1)

\* the name the specification gives the source at 0-based position i
PositionalName(i) ==
    (IF site = "BatchDownload" THEN "snap-" ELSE "favorite-") \o ToString(i + 1) \o ".png"

\* C1: whatever set of remote sources has its fetch or body read throw, the
\* job is not aborted: once the loop is over, exactly the sources that did
\* not throw have an entry, and if serialization succeeds the archive is
\* offered for download and reported as a success (also with zero entries).
C1_FailuresAreSkipped ==
    \A j \in DOMAIN jobs :
        LET job == jobs[j] IN
        LoopDone(job) =>
            /\ \A i \in Positions :
                   (i \in job.threw) <=> (PositionalName(i) \notin DOMAIN job.zip)
            /\ Cardinality(DOMAIN job.zip) = Len(images) - Cardinality(job.threw)
            /\ {l.src : l \in job.logged} = job.threw
            /\ (job.pc = "done" /\ ~job.genFailed) =>
                   (job.offered /\ job.toast.kind = "success")

\* C1 witness: a finished, successful job in which exactly one of at least
\* two sources threw and the archive holds the N-1 others.
C1_Witness ==
    \E j \in DOMAIN jobs :
        /\ jobs[j].pc = "done" /\ jobs[j].offered
        /\ jobs[j].toast.kind = "success"
        /\ Len(images) >= 2
        /\ Cardinality(jobs[j].threw) = 1
        /\ Cardinality(DOMAIN jobs[j].zip) = Len(images) - 1

\* C2: a remote source answered with a non-OK status is skipped: no archive
\* entry ever holds the body of a response whose status is not 200.
C2_NonOkResponseSkipped ==
    \A j \in DOMAIN jobs :
        \A n \in DOMAIN jobs[j].zip :
            jobs[j].zip[n].kind = "blob" => jobs[j].zip[n].status = StatusOK

\* C3: in a BatchDownload job the k-th progress report is round(k/N*100), one
\* report per processed source; the reports never decrease, the progress
\* state of a running job is the last report, and the reporting ends at 100.
C3_ProgressReports ==
    site = "BatchDownload" =>
        \A j \in DOMAIN jobs :
            LET job == jobs[j]
                n == Len(images)
                r == job.reported IN
            /\ Len(r) = job.i
            /\ \A k \in 1..Len(r) : r[k] = (200 * k + n) \div (2 * n)
            /\ \A k \in 1..(Len(r) - 1) : r[k] <= r[k + 1]
            /\ (Active(job) /\ Len(r) > 0) => progress = r[Len(r)]
            /\ LoopDone(job) => (Len(r) = n /\ r[n] = 100)

\* C3 witness: a finished BatchDownload job over three sources, whose reports
\* were 33, 67 and 100.
C3_Witness ==
    /\ site = "BatchDownload"
    /\ \E j \in DOMAIN jobs :
           jobs[j].pc = "done" /\ jobs[j].reported = <<33, 67, 100>>

\* C4: the entry of the source at 0-based position i is named
\* prefix-(i+1).png, and every processed source that did not throw still has
\* its own entry: no entry was overwritten by another source.
C4_PositionalNames ==
    \A j \in DOMAIN jobs :
        LET job == jobs[j] IN
        /\ \A n \in DOMAIN job.zip : n = PositionalName(job.zip[n].src)
        /\ \A i \in Positions :
               (i < job.i /\ i \notin job.threw) =>
                   (PositionalName(i) \in DOMAIN job.zip
                        /\ job.zip[PositionalName(i)].src = i)
        /\ \A a, b \in Positions : a # b => PositionalName(a) # PositionalName(b)

\* C4 witness: an archive with entries for three sources, one per position.
C4_Witness ==
    \E j \in DOMAIN jobs :
        /\ Cardinality(DOMAIN jobs[j].zip) = 3
        /\ \A i \in 0..2 : jobs[j].zip[PositionalName(i)].src = i

\* C5 (as stated): an archive with k entries carries exactly the numbers 1..k.
C5_NumbersAreOneToK ==
    \A j \in DOMAIN jobs :
        LoopDone(jobs[j]) =>
            DOMAIN jobs[j].zip =
                {PositionalName(n - 1) : n \in 1..Cardinality(DOMAIN jobs[j].zip)}

\* C5 (amended): the number of an entry is the 1-based position of its source
\* in the list: the numbers carried by the archive are exactly the positions
\* of the sources that did not throw, which need not be 1..k.
C5_NumbersArePositions ==
    \A j \in DOMAIN jobs :
        LoopDone(jobs[j]) =>
            /\ {n \in 1..Len(images) : PositionalName(n - 1) \in DOMAIN jobs[j].zip}
                   = {i + 1 : i \in Positions \ jobs[j].threw}
            /\ DOMAIN jobs[j].zip \subseteq {PositionalName(i) : i \in Positions}

\* C5 witness: the first source threw, a later one was inserted: the archive
\* has an entry numbered 2 and none numbered 1.
C5_Witness ==
    \E j \in DOMAIN jobs :
        /\ LoopDone(jobs[j])
        /\ 0 \in jobs[j].threw
        /\ PositionalName(1) \in DOMAIN jobs[j].zip
        /\ PositionalName(0) \notin DOMAIN jobs[j].zip

\* C6: the success count reported at the end of a job equals the number of
\* sources inserted into the archive.
C6_SuccessCountIsInserted ==
    \A j \in DOMAIN jobs :
        jobs[j].toast.kind = "success" =>
            jobs[j].toast.count = Cardinality(DOMAIN jobs[j].zip)

\* C7: when serialization fails the job ends with an error report, nothing
\* is offered for download, no success is reported, and generateAsync is not
\* called again.
C7_SerializationFailure ==
    \A j \in DOMAIN jobs :
        /\ jobs[j].genCalls <= 1
        /\ jobs[j].genFailed =>
               /\ jobs[j].pc = "done"
               /\ ~jobs[j].offered
               /\ jobs[j].toast = FailureToast
               /\ jobs[j].genCalls = 1

\* C7 witness: a job whose serialization failed after a source was inserted.
C7_Witness ==
    \E j \in DOMAIN jobs : jobs[j].genFailed /\ DOMAIN jobs[j].zip # {}

\* C8: within a job at most one fetch-and-read is in flight, it is the one of
\* the current source, every earlier source has settled, and serialization
\* starts only when no request is in flight and every source has settled.
C8_Sequential ==
    \A j \in DOMAIN jobs :
        LET job == jobs[j] IN
        /\ Cardinality(job.inflight) <= 1
        /\ job.inflight \subseteq {job.i}
        /\ (job.pc \in {"fetch", "blob"}) <=> (job.inflight # {})
        /\ \A i \in Positions :
               i < job.i => (i \in job.threw \/ PositionalName(i) \in DOMAIN job.zip)
        /\ LoopDone(job) => (job.inflight = {} /\ job.i = Len(images))

\* C8 witness: the fetch of the third source is in flight after the first
\* two have settled, one by throwing and one by being inserted.
C8_Witness ==
    \E j \in DOMAIN jobs :
        /\ jobs[j].inflight = {2}
        /\ jobs[j].threw # {}
        /\ DOMAIN jobs[j].zip # {}

\* C9: at most one archive job is active at a time, and while one is active
\* the button is disabled.
C9_OneActiveJob ==
    /\ Cardinality({j \in DOMAIN jobs : Active(jobs[j])}) <= 1
    /\ (\E j \in DOMAIN jobs : Active(jobs[j])) => (isDownloading /\ btnDisabled)

\* C9 witness: a job is active, waiting for a response body, and the committed
\* button is disabled.
C9_Witness ==
    /\ \E j \in DOMAIN jobs : Active(jobs[j]) /\ jobs[j].pc = "blob"
    /\ btnDisabled

-----------------------------------------------------------------------------
\* Properties of the image enhancer

\* C10: with all six settings at 0 the pixel pass is the identity: a canvas
\* computed by applyEnhancements with the default settings holds, pixel by
\* pixel and channel by channel, the bytes of the original image.
C10_NeutralIsIdentity ==
    (canvas # Blank /\ applied = DEFAULT_SETTINGS) =>
        /\ canvas.width = originalImage.width
        /\ canvas.height = originalImage.height
        /\ \A i \in 1..Len(originalImage.data) :
               /\ canvas.data[i].r = originalImage.data[i].r
               /\ canvas.data[i].g = originalImage.data[i].g
               /\ canvas.data[i].b = originalImage.data[i].b

\* C10 witness: a reset has made applyEnhancements recompute the canvas with
\* all settings at 0, for an image whose three channels differ.
C10_Witness ==
    /\ canvas # Blank
    /\ applied = DEFAULT_SETTINGS
    /\ settings = DEFAULT_SETTINGS
    /\ edits >= 1
    /\ canvas.data = <<Pixel(255, 1, 128, 255)>>

\* C14: once the image of imageUrl has loaded, the canvas holds
\* applyEnhancements of that image under the current settings, whatever
\* edits, presets and resets came before or after the load.
C14_CanvasIsCurrent ==
    (originalImage # NoImage /\ ~loading.pending) =>
        canvas \in ApplyEnhancements(originalImage, settings)

-----------------------------------------------------------------------------
\* Properties of the two editors

\* the preset of the enhancer with the given id
EnhancerPreset(id) ==
    AUTO_ENHANCE_PRESETS[CHOOSE p \in DOMAIN AUTO_ENHANCE_PRESETS :
                             AUTO_ENHANCE_PRESETS[p].id = id]

\* C15: in both editors, the state a preset application leaves has every
\* field at the value of the preset (six settings of the enhancer, seven
\* fields of the watermark) and the preset marked as selected; and the state
\* a manual edit of one field leaves has no preset marked, whichever field it
\* was and whether or not a preset was marked before.
C15_PresetOverwritesEditClears ==
    /\ lastEdit.kind = "preset" =>
           /\ settings = EnhancerPreset(lastEdit.key).settings
           /\ selectedPreset = lastEdit.key
    /\ lastEdit.kind = "slider" => selectedPreset = "null"
    /\ wmLastOp.kind = "preset" =>
           /\ \A f \in DOMAIN CurrentFields : CurrentFields[f] = wmLastOp.preset[f]
           /\ wmSelectedPreset = wmLastOp.preset.id
    /\ wmLastOp.kind = "edit" => wmSelectedPreset = NoPreset

\* C15 witness: in the watermark editor a preset was marked as selected when
\* the rotation slider was moved, and no preset is marked now.
C15_Witness ==
    /\ wmLastOp.kind = "edit"
    /\ wmLastOp.field = "rotation"
    /\ wmLastOp.marked
    /\ wmSelectedPreset = NoPreset
    /\ rotation = -45

\* the seven fields and the marker of the watermark editor
CurrentWatermark ==
    [text |-> text, position |-> position, fontSize |-> fontSize,
     opacity |-> opacity, color |-> color, fontFamily |-> fontFamily,
     rotation |-> rotation, selectedPreset |-> wmSelectedPreset]

\* C16: applying a watermark preset a second time changes nothing: in every
\* state a preset application has left, built-in or user-created preset,
\* applyPreset of the same preset yields the fields and the marker the state
\* already has.
C16_ApplyPresetIdempotent ==
    wmLastOp.kind = "preset" => AppliedPreset(wmLastOp.preset) = CurrentWatermark

\* C16 witness: a user-created preset was applied twice in a row.
C16_Witness ==
    /\ wmLastOp.kind = "preset"
    /\ wmLastOp.times = 2
    /\ StartsWithCustom(wmLastOp.preset.id)
    /\ wmSelectedPreset = wmLastOp.preset.id
    /\ text = <<"A", "\n", "B">>

\* C17: every built-in preset is in the catalog, unchanged and once, whatever
\* was saved, deleted, applied, edited or reset; only the card of a
\* user-created preset takes a delete, and after it no entry with that id is
\* left while every other entry is.
C17_BuiltInsStay ==
    /\ \A b \in DOMAIN DEFAULT_PRESETS :
           Cardinality({k \in DOMAIN AllPresets : AllPresets[k] = DEFAULT_PRESETS[b]}) = 1
    /\ \A k \in DOMAIN AllPresets :
           ~StartsWithCustom(AllPresets[k].id) =>
               \E b \in DOMAIN DEFAULT_PRESETS : AllPresets[k] = DEFAULT_PRESETS[b]
    /\ wmLastOp.kind = "delete" =>
           /\ StartsWithCustom(wmLastOp.preset.id)
           /\ \A k \in DOMAIN AllPresets : AllPresets[k].id # wmLastOp.preset.id

\* C17 witness: a preset was saved in this session and then deleted; the
\* stored preset of the earlier session is still there, with the four
\* built-in ones.
C17_Witness ==
    /\ wmLastOp.kind = "delete"
    /\ wmLastOp.preset.id # StoredPreset.id
    /\ presets = <<StoredPreset>>
    /\ Len(AllPresets) = Len(DEFAULT_PRESETS) + 1

\* C18: while the text is empty the Download button takes no click; every
\* handleDownload run, and with it every save of the preferences and every
\* export, had a text that was not empty.
C18_NoExportWithEmptyText ==
    /\ text = << >> => DownloadDisabled
    /\ \A d \in DOMAIN downloads : downloads[d].text # << >>
    /\ \A k \in DOMAIN localStorage.preferences :
           localStorage.preferences[k].text # << >>

\* C18 witness: handleDownload has run once, with a text, and toDataURL
\* threw, so the editor stayed open; then the text was emptied: the button
\* is disabled and the stored preferences are those of that run.
C18_Witness ==
    /\ wmLastOp.kind = "edit" /\ wmLastOp.field = "text"
    /\ text = << >>
    /\ watermarkIsOpen
    /\ DownloadDisabled
    /\ Len(downloads) = 1
    /\ ~downloads[1].exported
    /\ localStorage.preferences # << >>
    /\ LoadPreferences(localStorage.preferences).text = downloads[1].text

-----------------------------------------------------------------------------
\* Properties of the watermark layout.  Coordinates are over Unit.

\* fontSize * 1.3 over Unit
ClaimedLineHeight == (13 * fontSize * Unit) \div 10

\* C19: the component with presets draws one line per line of the text, line
\* k (from 0) at the vertical position of line 0 plus k * (fontSize * 1.3),
\* at every anchor and for every number of lines.
C19_LineSpacing ==
    drawnBy = "multi-line" =>
        /\ Len(fillTexts) = Len(Split(text))
        /\ \A k \in DOMAIN fillTexts :
               /\ fillTexts[k].line = Split(text)[k]
               /\ fillTexts[k].y = fillTexts[1].y + (k - 1) * ClaimedLineHeight

\* C19 witness: a text of two lines drawn at bottom-right with font size 24:
\* the second line is 31.2 pixels below the first.
C19_Witness ==
    /\ drawnBy = "multi-line"
    /\ position = "bottom-right"
    /\ fontSize = 24
    /\ Len(fillTexts) = 2
    /\ fillTexts[2].y - fillTexts[1].y = 624

\* the widest measured line of the drawing, in pixels
DrawnMaxWidth ==
    CHOOSE w \in {fillTexts[k].width : k \in DOMAIN fillTexts} :
        \A k \in DOMAIN fillTexts : fillTexts[k].width <= w

\* the horizontal centre of the drawn block: the component with presets
\* draws with textAlign = "center", the one-line component from x rightwards
DrawnCentreX ==
    IF drawnBy = "one-line"
    THEN fillTexts[1].x + (Unit * fillTexts[1].width) \div 2
    ELSE fillTexts[1].x

\* the base position the specification gives for a padding and the height
\* of the block
ClaimedBaseY(padding, totalHeight) ==
    CASE position \in {"top-left", "top-right"} -> Unit * (padding + fontSize)
      [] position \in {"bottom-left", "bottom-right"} ->
             Unit * imageSize.height - Unit * padding - totalHeight + Unit * fontSize
      [] position = "center" ->
             (Unit * imageSize.height) \div 2 - totalHeight \div 2 + Unit * fontSize

ClaimedCentreX(padding, maxWidth) ==
    CASE position \in {"top-left", "bottom-left"} ->
             Unit * padding + (Unit * maxWidth) \div 2
      [] position \in {"top-right", "bottom-right"} ->
             Unit * imageSize.width - Unit * padding - (Unit * maxWidth) \div 2
      [] position = "center" -> (Unit * imageSize.width) \div 2

\* C20 (as stated): every drawing of the watermark puts the first baseline
\* and the centre of the block where the formulas with padding 30 put them.
C20_BasePosition ==
    fillTexts # << >> =>
        /\ fillTexts[1].y = ClaimedBaseY(30, Len(fillTexts) * ClaimedLineHeight)
        /\ DrawnCentreX = ClaimedCentreX(30, DrawnMaxWidth)

\* C20 (amended): the component with presets follows the formulas with
\* padding 30.  The one-line component uses padding 20, puts the baseline of
\* a top anchor at padding + fontSize, of a bottom anchor at height - padding
\* and of center at height/2 + fontSize/2, and starts the text at padding
\* (left), width - textWidth - padding (right) or (width - textWidth)/2.
C20_BasePositionOfEachComponent ==
    /\ drawnBy = "multi-line" =>
           /\ fillTexts[1].y = ClaimedBaseY(30, Len(fillTexts) * ClaimedLineHeight)
           /\ \A k \in DOMAIN fillTexts : fillTexts[k].x = ClaimedCentreX(30, DrawnMaxWidth)
    /\ drawnBy = "one-line" =>
           /\ Len(fillTexts) = 1
           /\ fillTexts[1].y =
                  CASE position \in {"top-left", "top-right"} -> Unit * (20 + fontSize)
                    [] position \in {"bottom-left", "bottom-right"} ->
                           Unit * (imageSize.height - 20)
                    [] position = "center" ->
                           (Unit * imageSize.height) \div 2 + (Unit * fontSize) \div 2
           /\ DrawnCentreX = ClaimedCentreX(20, fillTexts[1].width)

\* C20 witness: the component with presets has drawn three lines, one of
\* them empty, at bottom-left.
C20_Witness ==
    /\ drawnBy = "multi-line"
    /\ position = "bottom-left"
    /\ Len(fillTexts) = 3
    /\ fillTexts[2].width = 0
    /\ fillTexts[1].width # fillTexts[3].width

-----------------------------------------------------------------------------
\* Properties of the two pixel passes

RGB == {"r", "g", "b"}

\* C11: every R, G and B value the pixel loop writes, and every one
\* applySharpening writes after it, lies in 0..255, for every sampled channel
\* value and every combination of the settings at the ends of their sliders.
C11_ChannelsInRange ==
    \A buffer \in {enhanced, sharpened} :
        \A i \in DOMAIN buffer.data :
            \A ch \in RGB : buffer.data[i][ch] \in 0..255

\* C11 witness: all five settings of the loop at the upper end of their
\* sliders and the sharpening at its full amount, on a 3x3 image: the loop
\* has stored both a 255 and a 0, and the interior pixel was sharpened to a
\* value at the end of the range.
C11_Witness ==
    /\ passSettings = [brightness |-> 50, contrast |-> 50, saturation |-> 50,
                       sharpness |-> 0, warmth |-> 30, vibrance |-> 50]
    /\ passImage.width = 3 /\ passImage.height = 3
    /\ passSharpness = 100
    /\ sharpened # Blank
    /\ \E i \in DOMAIN enhanced.data : \E ch \in RGB : enhanced.data[i][ch] = 255
    /\ \E i \in DOMAIN enhanced.data : \E ch \in RGB : enhanced.data[i][ch] = 0
    /\ sharpened.data[5] # enhanced.data[5]
    /\ \E ch \in RGB : sharpened.data[5][ch] \in {0, 255}

\* C12: neither pass writes an alpha value: after the pixel loop, and after
\* applySharpening, every pixel has the alpha of the input buffer, and the
\* buffer has kept its size.
C12_AlphaUntouched ==
    \A buffer \in {enhanced, sharpened} \ {Blank} :
        /\ buffer.width = passImage.width
        /\ buffer.height = passImage.height
        /\ Len(buffer.data) = Len(passImage.data)
        /\ \A i \in DOMAIN passImage.data : buffer.data[i].a = passImage.data[i].a

\* C12 witness: both passes have changed the colour of an interior pixel
\* whose alpha is 128, with none of the five settings of the loop at 0.
C12_Witness ==
    /\ passImage.width = 3 /\ passImage.height = 3
    /\ passImage.data[5].a = 128
    /\ \A key \in {"brightness", "contrast", "saturation", "warmth", "vibrance"} :
           passSettings[key] # 0
    /\ sharpened # Blank
    /\ \E ch \in RGB : enhanced.data[5][ch] # passImage.data[5][ch]
    /\ \E ch \in RGB : sharpened.data[5][ch] # enhanced.data[5][ch]
    /\ sharpened.data[5].a = 128

\* the indices of the pixels of row 0, the last row, column 0 and the last
\* column of a buffer
Border(buffer) ==
    {i \in DOMAIN buffer.data :
        \/ (i - 1) % buffer.width \in {0, buffer.width - 1}
        \/ (i - 1) \div buffer.width \in {0, buffer.height - 1}}

\* C13: applySharpening leaves every border pixel as it was, for every
\* amount; in a buffer less than 3 wide or high that is every pixel; and with
\* amount 0 it leaves every pixel as it was.
C13_BorderUntouched ==
    sharpened # Blank =>
        /\ \A i \in Border(enhanced) : sharpened.data[i] = enhanced.data[i]
        /\ (enhanced.width < 3 \/ enhanced.height < 3) => sharpened = enhanced
        /\ passSharpness = 0 => sharpened = enhanced

\* C13 witness: a 3x3 buffer sharpened at the full amount: the one interior
\* pixel has changed and the eight border pixels have their values.
C13_Witness ==
    /\ enhanced.width = 3 /\ enhanced.height = 3
    /\ passSharpness = 100
    /\ sharpened # Blank
    /\ sharpened.data[5] # enhanced.data[5]
    /\ Cardinality(Border(enhanced)) = 8
    /\ \A i \in Border(enhanced) : sharpened.data[i] = enhanced.data[i]

-----------------------------------------------------------------------------
\* Properties of the export handlers

\* the step is a run of handleDownload of ImageEnhancer that has failed
EnhancerExportFailed ==
    /\ Len(enhDownloads') = Len(enhDownloads) + 1
    /\ ~enhDownloads'[Len(enhDownloads')].exported

\* the step is a run of handleDownload of WatermarkEditor that has failed
WatermarkExportFailed ==
    /\ Len(downloads') = Len(downloads) + 1
    /\ ~downloads'[Len(downloads')].exported

\* C21: a run of handleDownload whose export fails, in either editor, raises
\* the failure toast and no other, leaves the editor open, leaves every
\* setting and the selection marker as they were, ends with isProcessing
\* false, and is the only export attempt of the step.
C21_FailedExportKeepsState ==
    [][/\ EnhancerExportFailed =>
           /\ enhDownloads'[Len(enhDownloads')].toasts = <<"Failed to download image">>
           /\ SubSeq(enhDownloads', 1, Len(enhDownloads)) = enhDownloads
           /\ enhancerIsOpen'
           /\ settings' = settings
           /\ selectedPreset' = selectedPreset
           /\ ~enhIsProcessing'
       /\ WatermarkExportFailed =>
           /\ downloads'[Len(downloads')].toasts = <<"Failed to download image">>
           /\ SubSeq(downloads', 1, Len(downloads)) = downloads
           /\ wmToast' = "Failed to download image"
           /\ watermarkIsOpen'
           /\ CurrentWatermark' = CurrentWatermark
           /\ presets' = presets
           /\ ~isProcessing']_vars

\* C21 witness: an export of the enhancer has failed while a preset was
\* marked as selected; the editor is open with that preset still marked.
C21_Witness ==
    /\ enhDownloads # << >>
    /\ ~enhDownloads[Len(enhDownloads)].exported
    /\ lastEdit.kind = "download"
    /\ lastEdit.marked
    /\ selectedPreset # "null"
    /\ settings # DEFAULT_SETTINGS
    /\ enhancerIsOpen

-----------------------------------------------------------------------------
\* Properties of the generate-snaps function

\* the answer the categories of the specification give a finished request
\* whose upstream call has settled: the rate-limit error for 429, the quota
\* error for 402, a generic failure for any other failure
CategoryOf(upstream) ==
    IF upstream.settled = "resolved" /\ upstream.status = 429
    THEN ErrorResponse(429, "Rate limit exceeded. Please try again later.")
    ELSE IF upstream.settled = "resolved" /\ upstream.status = 402
    THEN ErrorResponse(402, "Credits exhausted. Please add more credits.")
    ELSE ErrorResponse(500, "Failed to generate image")

\* C22: a generation request that has ended has exactly one response, which
\* is an image locator or an error; the handler has called the gateway at
\* most once; and when the gateway answered 429 the response is the
\* rate-limit error, when it answered 402 the quota error, and when it failed
\* otherwise a generic failure (status 500).
C22_OneCategorisedResponse ==
    (srvRequest.method = "POST" /\ srvPc = "done") =>
        /\ Len(srvResponses) = 1
        /\ Len(srvCalls) <= 1
        /\ LET response == srvResponses[1] IN
           /\ (response.imageUrl # "") # (response.error # "")
           /\ (srvUpstream.settled = "resolved" /\ srvUpstream.status \in {429, 402})
                  => response = CategoryOf(srvUpstream)
           /\ (srvUpstream.settled = "rejected"
                   \/ (srvUpstream.settled = "resolved"
                          /\ srvUpstream.status \notin {200, 429, 402})
                   \/ (srvUpstream.settled = "resolved" /\ srvUpstream.status = 200
                          /\ response.imageUrl = ""))
                  => (response.status = 500 /\ response.error # "")

-----------------------------------------------------------------------------
\* Properties of the History page

\* C30: an image whose handleDelete has succeeded is not in the displayed
\* list, in the state the success leaves and in every later one.
C30_DeletedStayAbsent ==
    \A j \in DOMAIN histDeletes :
        histDeletes[j].pc = "deleted" =>
            \A k \in DOMAIN histImages : histImages[k] # histDeletes[j].id

-----------------------------------------------------------------------------
\* Properties of the order of the stages and of the sharpening formula

\* the five stages composed in the order brightness, contrast, saturation,
\* warmth, vibrance, each reading what the one before has computed
Composition(px, st) ==
    LET B(x) == BrightnessStage(x, st)
        C(x) == ContrastStage(B(x), st)
        p2 == [r |-> C(px.r), g |-> C(px.g), b |-> C(px.b)]
    IN  \* CHOOSE over a singleton binds the value once it is computed
        LET gray == CHOOSE v \in {Gray(p2)} : TRUE
            p3 == [r |-> SaturationStage(p2.r, gray, st),
                   g |-> SaturationStage(p2.g, gray, st),
                   b |-> SaturationStage(p2.b, gray, st)]
        IN  VibranceStage(WarmthStage(p3, st), st)

\* the same composition with a value that has left [0, 255] brought back
\* into it after the brightness stage
CompositionClampedEarly(px, st) ==
    LET B(x) == LET x1 == BrightnessStage(x, st) IN
                IF x1 < 0 THEN 0 ELSE IF x1 > 5100 THEN 5100 ELSE x1
        C(x) == ContrastStage(B(x), st)
        p2 == [r |-> C(px.r), g |-> C(px.g), b |-> C(px.b)]
        gray == Gray(p2)
        p3 == [r |-> SaturationStage(p2.r, gray, st),
               g |-> SaturationStage(p2.g, gray, st),
               b |-> SaturationStage(p2.b, gray, st)]
    IN  VibranceStage(WarmthStage(p3, st), st)

\* C23: every channel the pixel loop has stored is the clamp (and the byte
\* store) of the five-stage composition of the input pixel in which no stage
\* output was clamped; looked at in the state the loop leaves.
C23_ClampOnceAtTheEnd ==
    (enhanced # Blank /\ sharpened = Blank) =>
        \A i \in DOMAIN passImage.data :
            \A composed \in {Composition(passImage.data[i], passSettings)} :
                \A ch \in RGB : \E rule \in TieRules :
                    enhanced.data[i][ch] = StoreChannel(composed[ch], rule)

\* C23 witness: brightness at +50 takes a channel of 255 past 255 and
\* contrast at -50 brings it back; the stored channel is what the unclamped
\* value gives, and differs from what a clamp after the brightness stage
\* would have given.
C23_Witness ==
    /\ enhanced # Blank
    /\ passSettings.brightness = 50
    /\ passSettings.contrast = -50
    /\ \E i \in DOMAIN passImage.data : \E ch \in RGB :
           /\ passImage.data[i][ch] = 255
           /\ BrightnessStage(passImage.data[i][ch], passSettings) > 5100
           /\ \A rule \in TieRules :
                  enhanced.data[i][ch] #
                      StoreChannel(CompositionClampedEarly(passImage.data[i],
                                                           passSettings)[ch], rule)

\* C24: after applySharpening every channel of every interior pixel is
\* clamp(center + (center - neighbours) * amount), stored as a byte, where
\* center is the value of the pixel and neighbours the mean of the values of
\* the pixels above, below, left and right of it, all five taken from the
\* buffer as it was before the pass.  Over 400 the value is
\* 400 center + (4 center - sum) * sharpness.
C24_SharpenFromSnapshot ==
    sharpened # Blank =>
        \A x \in 1..(enhanced.width - 2) : \A y \in 1..(enhanced.height - 2) :
            \A ch \in RGB :
                LET center == PixelAt(enhanced, x, y)[ch]
                    sum == PixelAt(enhanced, x, y - 1)[ch] + PixelAt(enhanced, x, y + 1)[ch]
                           + PixelAt(enhanced, x - 1, y)[ch] + PixelAt(enhanced, x + 1, y)[ch]
                    value == 400 * center + (4 * center - sum) * passSharpness
                    stored == PixelAt(sharpened, x, y)[ch]
                IN  IF value <= 0 THEN stored = 0
                    ELSE IF value >= 255 * 400 THEN stored = 255
                    ELSE 400 * stored - 200 <= value /\ value <= 400 * stored + 200

\* C24 witness: a buffer with two interior pixels side by side, sharpened:
\* the left one has changed in a channel in which the right one was stored
\* strictly inside the range, so a pass that read the new value of the left
\* pixel would have stored another value for the right one.
C24_Witness ==
    /\ sharpened # Blank
    /\ enhanced.width = 4 /\ enhanced.height = 3
    /\ passSharpness = 50
    /\ \E ch \in RGB :
           /\ PixelAt(sharpened, 1, 1)[ch] # PixelAt(enhanced, 1, 1)[ch]
           /\ PixelAt(sharpened, 2, 1)[ch] \in 1..254
           /\ PixelAt(sharpened, 2, 1)[ch] # PixelAt(enhanced, 2, 1)[ch]

-----------------------------------------------------------------------------
\* Properties of the termination of a job

\* an invocation of the handler has started and has not reached its end
JobRunning == \E j \in DOMAIN jobs : Active(jobs[j])

\* C25: a started job terminates when every promise it awaits settles: the
\* flag isDownloading is TRUE in every state in which the job is running, and
\* a running job leads to a state in which no job is running, the flag is
\* FALSE and progress is 0.
C25_JobTerminates ==
    /\ [](JobRunning => isDownloading)
    /\ JobRunning ~> (~JobRunning /\ ~isDownloading /\ progress = 0)

\* C25 witness: a BatchDownload job on two sources or more has ended after
\* every source has failed; progress had reached 100 and is 0 again.
C25_Witness ==
    /\ site = "BatchDownload"
    /\ Len(images) >= 2
    /\ ~JobRunning
    /\ ~isDownloading /\ progress = 0
    /\ \E j \in DOMAIN jobs :
           /\ jobs[j].threw = 0..(Len(images) - 1)
           /\ jobs[j].reported # << >>
           /\ jobs[j].reported[Len(jobs[j].reported)] = 100

-----------------------------------------------------------------------------
\* Properties of the preset marker

\* C26: in both editors, whenever a preset is marked as selected, a preset
\* with the marked id is in the catalog and the current settings equal the
\* settings of that preset field by field (six settings of the enhancer,
\* seven fields of the watermark).
C26_MarkedPresetIsCurrent ==
    /\ selectedPreset # "null" =>
           \E p \in DOMAIN AUTO_ENHANCE_PRESETS :
               /\ AUTO_ENHANCE_PRESETS[p].id = selectedPreset
               /\ \A key \in DOMAIN settings :
                      settings[key] = AUTO_ENHANCE_PRESETS[p].settings[key]
    /\ wmSelectedPreset # NoPreset =>
           \E k \in DOMAIN AllPresets :
               /\ AllPresets[k].id = wmSelectedPreset
               /\ \A f \in DOMAIN CurrentFields : AllPresets[k][f] = CurrentFields[f]

\* C26 witness: the auto-enhance has completed after a slider was moved
\* between the click and the completion, while the enhancer was loading a
\* second image; the marker is "auto" and the settings are those of "auto".
C26_Witness ==
    /\ lastEdit.kind = "auto"
    /\ lastEdit.key = "slider"
    /\ selectedPreset = "auto"
    /\ settings = AUTO_ENHANCE_PRESETS[1].settings
    /\ applied = settings
    /\ loading.pending

-----------------------------------------------------------------------------
\* Properties of the exported canvas

\* C27: whenever a watermarked image is exported, the canvas that is
\* exported was drawn with the fields that are current at the click:
\* no order of field changes, load completions and the download click lets a
\* stale or not yet drawn canvas be exported.
C27_ExportIsCurrent ==
    \A d \in DOMAIN downloads :
        downloads[d].exported => downloads[d].canvas = <<downloads[d].fields>>

-----------------------------------------------------------------------------
\* Properties of the stored preferences

\* C28: the preferences saved at a download, loaded by the mount effect of the
\* next editor, give the seven fields (text, position, fontSize, opacity,
\* color, fontFamily, rotation) the editor had at that download.
C28_PreferencesRoundTrip ==
    wmLastOp.kind = "download" =>
        \A loaded \in {LoadPreferences(localStorage.preferences)} :
            /\ DOMAIN loaded = DOMAIN downloads[Len(downloads)].fields
            /\ \A f \in DOMAIN loaded : loaded[f] = downloads[Len(downloads)].fields[f]

\* C28 witness: an export of a text of two lines with a negative rotation and
\* the smallest opacity; the stored text holds the escaped line break.
C28_Witness ==
    /\ wmLastOp.kind = "download"
    /\ downloads[Len(downloads)].exported
    /\ \E i \in DOMAIN text : text[i] = "\n"
    /\ rotation < 0
    /\ opacity = 10
    /\ Len(localStorage.preferences[1].text) > Len(text)

-----------------------------------------------------------------------------
\* Properties of the two call sites together

\* what a job has produced: the source positions that have an entry in the
\* archive, and how the job has ended
JobOutcome(job) ==
    [included |-> {job.zip[n].src : n \in DOMAIN job.zip},
     result |-> IF job.offered THEN "success" ELSE "failure"]

\* what a job on the source list imgs produces when the fetch or the body
\* read of the positions in threw throws and generateAsync rejects or not: a
\* function of the sources and of these outcomes only, not of the call site
ExpectedOutcome(imgs, threw, genFailed) ==
    [included |-> {i \in 0..(Len(imgs) - 1) :
                       imgs[i + 1].scheme = "data:" \/ i \notin threw},
     result |-> IF genFailed THEN "failure" ELSE "success"]

====
